---- MODULE Spec2Model ----
(***************************************************************************)
(* A model of the Matisse laser controller: the instrument link           *)
(* (Matisse.query under the class-wide matisse_lock), the stabilization   *)
(* session (Matisse.stabilize_on / stabilize_off and                      *)
(* StabilizationThread.run), the limit checker, the lock correction       *)
(* session, the motor positioners, the two extremum scans and             *)
(* Matisse.set_wavelength.                                                *)
(*                                                                         *)
(* Units.  Wavelengths are integers in 1e-4 nm, actuator positions        *)
(* (reference cell, slow piezo, piezo etalon) are integers in 1e-2, motor *)
(* positions are the integers of the source.                              *)
(***************************************************************************)
EXTENDS Integers, Sequences, FiniteSets

VARIABLES
    pc,                   \* each thread's position in its code
    q,                    \* each thread's stack of active Matisse.query calls
    resp,                 \* each thread's result of its last returned query
    exc,                  \* the error raised or warning printed by each thread's call
    matisse_lock,         \* Matisse.matisse_lock: "free" or the holding thread
    last_cmd,             \* each thread's last command handed to the instrument
    faults,               \* error answers / transport failures given so far
    target_wavelength,    \* Matisse.target_wavelength (None if unset)
    stabilization_thread, \* Matisse.stabilization_thread ("None" or a thread)
    lock_correction_thread, \* Matisse.lock_correction_thread ("None" or a thread)
    messages,             \* each loop thread's message queue
    auto_corrections,     \* Matisse.stabilization_auto_corrections
    loc,                  \* each thread's local variables
    iter_cmds,            \* commands a loop thread sent in its current iteration
    call,                 \* the foreground thread's current call and its argument
    mp,                   \* the active set_*_motor_pos call
    scan,                 \* the locals of the active scan
    moves,                \* the motor moves sent by the scan or positioner call
    busy                  \* "not idle" answers a motor gave in a row

\* the state of the motor positioners and scans
motorVars == <<call, mp, scan, moves, busy>>

\* the state of the lock correction session
lockVars == <<lock_correction_thread>>

\* the state of the stabilization session
loopVars == <<stabilization_thread, messages, auto_corrections, loc, iter_cmds>>

vars == <<pc, q, resp, exc, matisse_lock, last_cmd, faults, target_wavelength,
          stabilization_thread, lock_correction_thread, messages,
          auto_corrections, loc, iter_cmds, call, mp, scan, moves, busy>>

----------------------------------------------------------------------------
(* Bounds of the model *)

\* error answers and transport failures the instrument may give in one run
MaxFaults == 1
\* saturation corrections one run may perform
MaxCorrections == 2
\* "not idle" answers a motor may give in a row
MaxBusy == 1
\* active query calls a thread may have, one inside the other, before the
\* instrument stops answering with errors
MaxDepth == 3

\* The motors, scaled down (the source's values in brackets); the nudge stays
\* larger than two steps, as in the source
\* BiFi motor upper limit [class Constants]
BIREFRINGENT_FILTER_UPPER_LIMIT == 7
\* BiFi scan range [400] and step [4]
BIREFRINGENT_SCAN_RANGE == 2
BIREFRINGENT_SCAN_STEP == 1
\* thin etalon motor upper limit [class Constants]
THIN_ETALON_UPPER_LIMIT == 8
\* thin etalon scan range [2000], step [20] and nudge [50]
THIN_ETALON_SCAN_RANGE == 2
THIN_ETALON_SCAN_STEP == 1
THIN_ETALON_NUDGE == 3

----------------------------------------------------------------------------
(* Threads *)

Fg == "fg"
\* StabilizationThread objects; two, so that a second live loop is expressible
Stab == {"s1", "s2"}
\* LockCorrectionThread objects; two, for the same reason
LockCorr == {"l1", "l2"}
\* the loop threads, each with its message queue
Loops == Stab \cup LockCorr
Threads == {Fg} \cup Loops

\* self.target_wavelength = None
None == -1

(* Program constants *)

\* configuration.DEFAULTS: stabilization tolerance 0.0005 nm, in 1e-4 nm
STABILIZATION_TOLERANCE == 5
\* configuration.DEFAULTS: wavemeter precision 3 decimals: a grid of 10 x 1e-4 nm
WAVEMETER_GRID == 10
\* is_any_limit_reached: offset = 0.05, in 1e-2
offset == 5

\* actuator limits (class Constants), in 1e-2
REFERENCE_CELL_LOWER_LIMIT == 20
REFERENCE_CELL_UPPER_LIMIT == 50
SLOW_PIEZO_LOWER_LIMIT == 20
SLOW_PIEZO_UPPER_LIMIT == 50
PIEZO_ETALON_LOWER_LIMIT == -80
PIEZO_ETALON_UPPER_LIMIT == 80
\* neutral positions used by reset_stabilization_piezos, in 1e-2
PIEZO_ETALON_CORRECTION_POS == 0
SLOW_PIEZO_CORRECTION_POS == 35
REFCELL_CORRECTION_POS == 35

\* start_scan directions
SCAN_MODE_UP == 0
SCAN_MODE_DOWN == 1

\* the motors: birefringent filter and thin etalon
Motors == {"BI", "TE"}
\* motor status "idle", and the modulus that keeps a status's last 8 bits
MOTOR_STATUS_IDLE == 2
STATUS_BITS == 256

UpperLimit(m) ==
    IF m = "BI" THEN BIREFRINGENT_FILTER_UPPER_LIMIT ELSE THIN_ETALON_UPPER_LIMIT
ScanRange(m) == IF m = "BI" THEN BIREFRINGENT_SCAN_RANGE ELSE THIN_ETALON_SCAN_RANGE
ScanStep(m) == IF m = "BI" THEN BIREFRINGENT_SCAN_STEP ELSE THIN_ETALON_SCAN_STEP
\* both motors nudged
NudgeBoth(m) == THIN_ETALON_NUDGE

\* only the thin etalon's chosen position is nudged
Nudge(m) == IF m = "BI" THEN 0 ELSE THIN_ETALON_NUDGE

----------------------------------------------------------------------------
(* Commands: a name and an integer argument (0 when the command has none) *)

Cmd(op, arg) == [op |-> op, arg |-> arg]
NoCmd == Cmd("none", 0)

\* Matisse.stop_scan / Matisse.start_scan: one scan-status command each
StopScanCmd == Cmd("SCAN:STATUS STOP", 0)
StartScanCmd(direction) == Cmd("SCAN:STATUS RUN", direction)

\* the motor commands
MoveCmd(m, pos) == Cmd(IF m = "BI" THEN "MOTBI:POS" ELSE "MOTTE:POS", pos)
StatusCmd(m) == Cmd(IF m = "BI" THEN "MOTBI:STATUS?" ELSE "MOTTE:STATUS?", 0)
PositionCmd(m) == Cmd(IF m = "BI" THEN "MOTBI:POS?" ELSE "MOTTE:POS?", 0)
SampleCmd(m) == Cmd(IF m = "BI" THEN "DPOW:DC?" ELSE "TE:DC?", 0)
IsMove(cmd) == cmd.op \in {"MOTBI:POS", "MOTTE:POS"}
IsStatus(cmd) == cmd.op \in {"MOTBI:STATUS?", "MOTTE:STATUS?"}
MotorOf(cmd) == IF cmd.op \in {"MOTBI:POS", "MOTBI:STATUS?", "MOTBI:POS?"}
                THEN "BI" ELSE "TE"

\* the status registers a motor may report: idle, idle with a higher bit set,
\* and (not more than MaxBusy times in a row) running
StatusReadings ==
    {MOTOR_STATUS_IDLE, MOTOR_STATUS_IDLE + STATUS_BITS}
        \cup (IF busy < MaxBusy THEN {MOTOR_STATUS_IDLE + 1} ELSE {})

\* the positions a motor may report when a scan asks where it is: the lowest
\* and highest centres of a valid window, and the ones next to them
CenterReadings(m) ==
    {ScanRange(m), ScanRange(m) + 1,
     UpperLimit(m) - ScanRange(m) - 1, UpperLimit(m) - ScanRange(m)}

\* what the wavemeter may read (1e-4 nm): 750 nm, 4e-4 nm above, 12e-4 nm below
WavemeterReadings == {7499988, 7500000, 7500004}

\* the positions an actuator with limits lo..hi may report: on and just inside
\* each margin, and the midpoint
ActuatorReadings(lo, hi) ==
    {lo + offset, lo + offset + 1, (lo + hi) \div 2, hi - offset - 1, hi - offset}

\* the error codes the instrument may report
ErrorCodes == {1}

\* an answer that starts with '!ERROR'
ERROR_RESPONSE == -1

\* the values the instrument may answer to a command
Responses(cmd) ==
    CASE cmd.op = "SCAN:NOW?" ->
            ActuatorReadings(REFERENCE_CELL_LOWER_LIMIT, REFERENCE_CELL_UPPER_LIMIT)
      [] cmd.op = "SLOWPIEZO:NOW?" ->
            ActuatorReadings(SLOW_PIEZO_LOWER_LIMIT, SLOW_PIEZO_UPPER_LIMIT)
      [] cmd.op = "PIEZOETALON:BASELINE?" ->
            ActuatorReadings(PIEZO_ETALON_LOWER_LIMIT, PIEZO_ETALON_UPPER_LIMIT)
      [] IsStatus(cmd) -> StatusReadings
      [] cmd.op \in {"MOTBI:POS?", "MOTTE:POS?"} -> CenterReadings(MotorOf(cmd))
      [] cmd.op = "ERROR:CODE?" -> ErrorCodes
      [] OTHER -> {0}

----------------------------------------------------------------------------
(* Thread state *)

\* a loop thread's locals: the wavelength measured and the target read in the
\* iteration, the drift, the three positions read by is_any_limit_reached and
\* its result; count0 is the correction counter as the iteration began
NoLoc == [current_wavelength |-> None, target |-> None, drift |-> 0,
          refcell |-> 0, slow_pz |-> 0, pz_eta |-> 0,
          limit |-> FALSE, count0 |-> 0]

\* set_wavelength's call of set_bifi_wavelength: the MOTBI:WAVELENGTH commands
\* sent, the status answer that let the command go (before) and the one that
\* let the call return (after)
NoCoarse == [sent |-> 0, before |-> 0, after |-> 0]

\* the RuntimeError of query: none raised
NoError == [command |-> "none", err_codes |-> 0]

\* line 63: RuntimeError("Error executing Matisse command '" + command + "' " + err_codes)
ErrorRaised(command, err_codes) == [command |-> command.op, err_codes |-> err_codes]

\* the foreground call: its name, the motor and position or the wavelength it
\* is about, and of set_wavelength the calls it has completed and the progress
\* of its set_bifi_wavelength; of a direct call of query its raise_on_error
\* and the commands it has handed to the instrument; and the RuntimeError a
\* query raised to it
NoCall == [op |-> "none", motor |-> "none", pos |-> 0, wavelength |-> 0,
           steps |-> <<>>, coarse |-> NoCoarse,
           raise_on_error |-> TRUE, cmds |-> <<>>, error |-> NoError]

\* a set_*_motor_pos call: motor, position and where it returns to; and of its
\* progress: the phase, the move commands sent, the status answer that let the
\* move go (before) and the one that let the call return (after)
NoMp == [motor |-> "none", pos |-> 0, ret |-> "none", phase |-> "none",
         sent |-> 0, before |-> 0, after |-> 0]

\* a scan: the motor, where the scan returns to, and its locals: center_pos,
\* positions, the index of the position being sampled, voltages, the extremum
\* positions, the index of the one being visited, wavelength_differences and
\* best_pos
NoScan == [motor |-> "none", ret |-> "none", center |-> 0, positions |-> <<>>,
           idx |-> 0, voltages |-> <<>>, cands |-> <<>>, k |-> 0, diffs |-> <<>>,
           best_pos |-> 0]

\* a target taken from the wavemeter whether or not one is set
TargetMeasuredAlways(target, measured) == measured

\* a target that stays unset
TargetLeftUnset(target, measured) == target

\* line 109-110, 183-184, 283-284: the target, or if none is set what the
\* wavemeter measured
TargetOrMeasured(target, measured) == IF target = None THEN measured ELSE target

\* Thread.is_alive(): started and not yet finished
is_alive(s) == pc[s] \notin {"none", "created", "done", "dead"}

\* is_stabilizing with the liveness test lost: it never reports a running loop
is_stabilizing_never == FALSE

\* is_stabilizing that takes a thread that has ended for a running one
is_stabilizing_stale == stabilization_thread # "None"

\* Matisse.is_stabilizing
is_stabilizing ==
    stabilization_thread # "None" /\ is_alive(stabilization_thread)

Init ==
    /\ pc = [t \in Threads |-> IF t = Fg THEN "idle" ELSE "none"]
    /\ q = [t \in Threads |-> <<>>]
    /\ resp = [t \in Threads |-> 0]
    /\ exc = [t \in Threads |-> "none"]
    /\ matisse_lock = "free"
    /\ last_cmd = [t \in Threads |-> NoCmd]
    /\ faults = 0
    /\ target_wavelength = None
    /\ stabilization_thread = "None"
    /\ lock_correction_thread = "None"
    /\ messages = [s \in Loops |-> <<>>]
    /\ auto_corrections = 0
    /\ loc = [t \in Threads |-> NoLoc]
    /\ iter_cmds = [s \in Stab |-> <<>>]
    /\ call = NoCall
    /\ mp = NoMp
    /\ scan = NoScan
    /\ moves = <<>>
    /\ busy = 0

----------------------------------------------------------------------------
(* Matisse.query *)

ErrorCodeCmd == Cmd("ERROR:CODE?", 0)
ErrorClearCmd == Cmd("ERROR:CLEAR", 0)

\* an active call of query: its command, where it is ("wait" for the lock,
\* "held" with the instrument, "code" in its call of query('ERROR:CODE?'),
\* "clear" in its call of query('ERROR:CLEAR')), raise_on_error (True unless
\* the caller says otherwise) and err_codes
Frame(cmd, st) == [cmd |-> cmd, st |-> st, raise_on_error |-> TRUE, err_codes |-> 0]
Top(t) == q[t][Len(q[t])]
SetTop(stack, st) == [stack EXCEPT ![Len(stack)].st = st]
Pop(stack) == SubSeq(stack, 1, Len(stack) - 1)

\* the thread is at label l and its last query has returned
At(t, l) == pc[t] = l /\ q[t] = <<>>

\* self.query(cmd), then continue at label next
Call(t, cmd, next) ==
    /\ q' = [q EXCEPT ![t] = <<Frame(cmd, "wait")>>]
    /\ pc' = [pc EXCEPT ![t] = next]

Goto(t, next) ==
    /\ pc' = [pc EXCEPT ![t] = next]
    /\ q' = q

\* an error propagates out of every active call of the thread: the foreground
\* call returns with it to its caller, a loop thread ends
Raise(t, kind) ==
    /\ pc' = [pc EXCEPT ![t] = IF t = Fg THEN "returned" ELSE "dead"]
    /\ q' = [q EXCEPT ![t] = <<>>]
    /\ exc' = [exc EXCEPT ![t] = kind]

\* a query that does not wait for the lock
CanAcquireUnlocked(t) == TRUE

\* "with Matisse.matisse_lock:" blocks until the lock is free
CanAcquire(t) == matisse_lock = "free"

\* query, line 54-55: take the lock and hand the command to the instrument
QueryAcquire(t) ==
    /\ q[t] # <<>>
    /\ Top(t).st = "wait"
    /\ CanAcquire(t)
    /\ matisse_lock' = t
    /\ q' = [q EXCEPT ![t] = SetTop(q[t], "held")]
    /\ last_cmd' = [last_cmd EXCEPT ![t] = Top(t).cmd]
    /\ iter_cmds' = IF t \in Stab
                    THEN [iter_cmds EXCEPT ![t] = Append(iter_cmds[t], Top(t).cmd)]
                    ELSE iter_cmds
    /\ moves' = IF IsMove(Top(t).cmd) THEN Append(moves, Top(t).cmd) ELSE moves
    /\ call' = IF t = Fg /\ call.op = "query"
               THEN [call EXCEPT !.cmds = Append(@, Top(t).cmd)]
               ELSE call
    /\ UNCHANGED <<pc, resp, exc, faults, target_wavelength, stabilization_thread,
                   lock_correction_thread, messages, auto_corrections, loc,
                   mp, scan, busy>>

\* the stack of calls after the innermost call returned result v: the caller,
\* if it is a query on its error path, keeps the error codes and goes on to
\* ERROR:CLEAR (line 61-62), or raises (line 63)
AfterReturn(stack, v) ==
    LET rest == Pop(stack) IN
    IF rest = <<>> THEN [q |-> <<>>, raised |-> FALSE, error |-> NoError]
    ELSE LET caller == rest[Len(rest)] IN
         IF caller.st = "code"
         THEN [q |-> Append([rest EXCEPT ![Len(rest)].st = "clear",
                                         ![Len(rest)].err_codes = v],
                            Frame(ErrorClearCmd, "wait")),
               raised |-> FALSE, error |-> NoError]
         ELSE [q |-> <<>>, raised |-> TRUE,
               error |-> ErrorRaised(caller.cmd, caller.err_codes)]

\* a lock that the thread keeps after its exchange
LockKept(t, failed) == t

\* a lock that a failed exchange does not give back
LockKeptOnError(t, failed) == IF failed THEN t ELSE "free"

\* line 54-55: leaving the with block releases the lock, also when
\* instrument.query raised
LockAfterExchange(t, failed) == "free"

\* query, line 66 (and 63 in the caller): the innermost call returns v
Returned(t, v) ==
    LET r == AfterReturn(q[t], v) IN
    IF r.raised
    THEN /\ Raise(t, "RuntimeError")
         /\ resp' = resp
         /\ call' = IF t = Fg THEN [call EXCEPT !.error = r.error] ELSE call
    ELSE /\ q' = [q EXCEPT ![t] = r.q]
         /\ resp' = IF r.q = <<>> THEN [resp EXCEPT ![t] = v] ELSE resp
         /\ UNCHANGED <<pc, exc, call>>

\* query, line 59-61 and 66: the answer starts with '!ERROR': with
\* raise_on_error call self.query('ERROR:CODE?'), without it return the answer
ErrorAnswer(t) ==
    IF Top(t).raise_on_error
    THEN /\ q' = [q EXCEPT ![t] = Append(SetTop(q[t], "code"),
                                         Frame(ErrorCodeCmd, "wait"))]
         /\ UNCHANGED <<pc, exc, resp, call>>
    ELSE Returned(t, ERROR_RESPONSE)

\* a loop thread that an error ends loses its locals
ThreadEnded(t) ==
    /\ loc' = IF pc'[t] = "dead" THEN [loc EXCEPT ![t] = NoLoc] ELSE loc
    /\ iter_cmds' = IF t \in Stab /\ pc'[t] = "dead"
                    THEN [iter_cmds EXCEPT ![t] = <<>>]
                    ELSE iter_cmds

\* query, line 55-66: the instrument answers (or the transport fails), the lock
\* is released, and the answer is returned or the error path is entered
QueryRespond(t) ==
    /\ q[t] # <<>>
    /\ Top(t).st = "held"
    /\ \/ \* VisaIOError: IOError
          /\ faults < MaxFaults
          /\ faults' = faults + 1
          /\ matisse_lock' = LockAfterExchange(t, TRUE)
          /\ Raise(t, "IOError")
          /\ UNCHANGED <<resp, busy, call>>
       \/ \* '!ERROR'
          /\ faults < MaxFaults
          /\ faults' = faults + 1
          /\ matisse_lock' = LockAfterExchange(t, FALSE)
          /\ ErrorAnswer(t)
          /\ busy' = busy
       \/ \* a result
          /\ faults' = faults
          /\ matisse_lock' = LockAfterExchange(t, FALSE)
          /\ \E v \in Responses(Top(t).cmd) :
                /\ busy' = IF ~IsStatus(Top(t).cmd) THEN busy
                           ELSE IF v % STATUS_BITS = MOTOR_STATUS_IDLE THEN 0
                           ELSE busy + 1
                /\ Returned(t, v)
    /\ ThreadEnded(t)
    /\ UNCHANGED <<last_cmd, target_wavelength, stabilization_thread,
                   lock_correction_thread, messages, auto_corrections,
                   mp, scan, moves>>

\* an instrument that goes on answering '!ERROR', to the commands of the error
\* path too
QueryError(t) ==
    /\ q[t] # <<>>
    /\ Top(t).st = "held"
    /\ Len(q[t]) < MaxDepth
    /\ matisse_lock' = LockAfterExchange(t, FALSE)
    /\ ErrorAnswer(t)
    /\ ThreadEnded(t)
    /\ UNCHANGED <<faults, busy, last_cmd, target_wavelength, stabilization_thread,
                   lock_correction_thread, messages, auto_corrections,
                   mp, scan, moves>>

\* the foreground call has returned or raised: its caller goes on, and what
\* the call left behind (its result, error or warning, last command) is dropped
FgReturn ==
    /\ At(Fg, "returned")
    /\ Goto(Fg, "idle")
    /\ resp' = [resp EXCEPT ![Fg] = 0]
    /\ exc' = [exc EXCEPT ![Fg] = "none"]
    /\ last_cmd' = [last_cmd EXCEPT ![Fg] = NoCmd]
    /\ loc' = [loc EXCEPT ![Fg] = NoLoc]
    /\ call' = NoCall
    /\ mp' = NoMp
    /\ scan' = NoScan
    /\ moves' = <<>>
    /\ UNCHANGED <<matisse_lock, faults, target_wavelength, stabilization_thread,
                   lock_correction_thread, messages, auto_corrections, iter_cmds,
                   busy>>

\* the commands and raise_on_error a caller may hand to query: a read with a
\* numeric result, and the command __init__ sends (line 31)
QueryInputs == {PositionCmd("BI"), ErrorClearCmd}

\* a direct call self.query(command, raise_on_error=r)
DirectQuery ==
    /\ At(Fg, "idle")
    /\ \E cmd \in QueryInputs : \E r \in BOOLEAN :
          /\ call' = [NoCall EXCEPT !.op = "query", !.raise_on_error = r]
          /\ q' = [q EXCEPT ![Fg] = <<[Frame(cmd, "wait") EXCEPT !.raise_on_error = r]>>]
    /\ pc' = [pc EXCEPT ![Fg] = "query_done"]
    /\ UNCHANGED <<resp, exc, matisse_lock, last_cmd, faults, target_wavelength,
                   mp, scan, moves, busy>>
    /\ UNCHANGED <<loopVars, lockVars>>

\* line 66: the direct call has returned its result
DirectQueryReturn ==
    /\ At(Fg, "query_done")
    /\ Goto(Fg, "returned")
    /\ UNCHANGED <<resp, exc, matisse_lock, last_cmd, faults, target_wavelength>>
    /\ UNCHANGED <<motorVars, loopVars, lockVars>>

----------------------------------------------------------------------------
(* The instrument link alone: the foreground thread calls query, and the  *)
(* instrument may answer any command with an error                        *)

NextQuery ==
    \/ FgReturn
    \/ DirectQuery
    \/ DirectQueryReturn
    \/ QueryAcquire(Fg)
    \/ QueryRespond(Fg)
    \/ QueryError(Fg)

SpecQuery == Init /\ [][NextQuery]_vars

----------------------------------------------------------------------------
(* Matisse.stabilize_on / stabilize_off *)

\* a new thread that is handed the queue of the thread object before it
QueueKept(old) == old

\* line 281, 331: queue.Queue(), a new queue with nothing in it
NewQueue(old) == <<>>

\* a new StabilizationThread object: the first one not running
FreshThread == IF ~is_alive("s1") THEN "s1" ELSE "s2"

StabilizeOn ==
    /\ At(Fg, "idle")
    /\ IF is_stabilizing
       THEN /\ exc' = [exc EXCEPT ![Fg] = "WARNING: Already stabilizing"]
            /\ Goto(Fg, "returned")
       ELSE \* StabilizationThread.__init__: self._matisse.stop_scan()
            /\ exc' = exc
            /\ Call(Fg, StopScanCmd, "on_rising")
    /\ UNCHANGED <<resp, matisse_lock, last_cmd, faults, target_wavelength,
                   stabilization_thread, messages, auto_corrections, loc, iter_cmds>>
    /\ UNCHANGED <<motorVars, lockVars>>

StabilizeOnRisingSpeed ==
    /\ At(Fg, "on_rising")
    /\ Call(Fg, Cmd("SCAN:RISINGSPEED", 0), "on_falling")
    /\ UNCHANGED <<resp, exc, matisse_lock, last_cmd, faults, target_wavelength,
                   stabilization_thread, messages, auto_corrections, loc, iter_cmds>>
    /\ UNCHANGED <<motorVars, lockVars>>

StabilizeOnFallingSpeed ==
    /\ At(Fg, "on_falling")
    /\ Call(Fg, Cmd("SCAN:FALLINGSPEED", 0), "on_assign")
    /\ UNCHANGED <<resp, exc, matisse_lock, last_cmd, faults, target_wavelength,
                   stabilization_thread, messages, auto_corrections, loc, iter_cmds>>
    /\ UNCHANGED <<motorVars, lockVars>>

\* stabilize_on, line 281-285: keep the new thread with its fresh queue, and
\* take the target from the wavemeter if none is set
StabilizeOnAssign ==
    /\ At(Fg, "on_assign")
    /\ ~is_alive(FreshThread)
    /\ LET s == FreshThread IN
       /\ stabilization_thread' = s
       /\ pc' = [pc EXCEPT ![Fg] = "on_start", ![s] = "created"]
       /\ messages' = [messages EXCEPT ![s] = NewQueue(@)]
       /\ loc' = [loc EXCEPT ![s] = NoLoc]
       /\ iter_cmds' = [iter_cmds EXCEPT ![s] = <<>>]
       /\ last_cmd' = [last_cmd EXCEPT ![s] = NoCmd]
       /\ exc' = [exc EXCEPT ![s] = "none"]
    /\ \E w \in WavemeterReadings :
          target_wavelength' = TargetOrMeasured(target_wavelength, w)
    /\ UNCHANGED <<q, resp, matisse_lock, faults, auto_corrections>>
    /\ UNCHANGED <<motorVars, lockVars>>

\* stabilize_on, line 286: self.stabilization_thread.start()
StabilizeOnStart ==
    /\ At(Fg, "on_start")
    /\ pc' = [pc EXCEPT ![Fg] = "returned", ![stabilization_thread] = "loop"]
    /\ UNCHANGED <<q, resp, exc, matisse_lock, last_cmd, faults, target_wavelength,
                   stabilization_thread, messages, auto_corrections, loc, iter_cmds>>
    /\ UNCHANGED <<motorVars, lockVars>>

StabilizeOff ==
    /\ At(Fg, "idle")
    /\ IF is_stabilizing
       THEN /\ exc' = exc
            /\ Goto(Fg, "off_put")
       ELSE /\ exc' = [exc EXCEPT ![Fg] = "WARNING: not running"]
            /\ Goto(Fg, "returned")
    /\ UNCHANGED <<resp, matisse_lock, last_cmd, faults, target_wavelength,
                   stabilization_thread, messages, auto_corrections, loc, iter_cmds>>
    /\ UNCHANGED <<motorVars, lockVars>>

\* stabilize_off, line 292: self.stabilization_thread.messages.put('stop')
StabilizeOffPut ==
    /\ At(Fg, "off_put")
    /\ messages' = [messages EXCEPT ![stabilization_thread] = Append(@, "stop")]
    /\ Goto(Fg, "off_join")
    /\ UNCHANGED <<resp, exc, matisse_lock, last_cmd, faults, target_wavelength,
                   stabilization_thread, auto_corrections, loc, iter_cmds>>
    /\ UNCHANGED <<motorVars, lockVars>>

\* a join that does not wait
JoinReturnsAtOnce(s) == TRUE

\* Thread.join() returns once the thread has finished
JoinReturns(s) == ~is_alive(s)

\* stabilize_off, line 293: self.stabilization_thread.join()
StabilizeOffJoin ==
    /\ At(Fg, "off_join")
    /\ JoinReturns(stabilization_thread)
    /\ Goto(Fg, "returned")
    /\ UNCHANGED <<resp, exc, matisse_lock, last_cmd, faults, target_wavelength,
                   stabilization_thread, messages, auto_corrections, loc, iter_cmds>>
    /\ UNCHANGED <<motorVars, lockVars>>

----------------------------------------------------------------------------
(* Matisse.set_slow_piezo_control *)

\* set_slow_piezo_control(enable): SLOWPIEZO:CONTROLSTATUS RUN (1) or STOP (0)
SetSlowPiezoControl ==
    /\ At(Fg, "idle")
    /\ \E enable \in {0, 1} : Call(Fg, Cmd("SLOWPIEZO:CONTROLSTATUS", enable), "control_set")
    /\ UNCHANGED <<resp, exc, matisse_lock, last_cmd, faults, target_wavelength,
                   stabilization_thread, messages, auto_corrections, loc, iter_cmds>>
    /\ UNCHANGED <<motorVars, lockVars>>

SetSlowPiezoControlReturn ==
    /\ At(Fg, "control_set")
    /\ Goto(Fg, "returned")
    /\ UNCHANGED <<resp, exc, matisse_lock, last_cmd, faults, target_wavelength,
                   stabilization_thread, messages, auto_corrections, loc, iter_cmds>>
    /\ UNCHANGED <<motorVars, lockVars>>

----------------------------------------------------------------------------
(* Matisse.is_any_limit_reached / reset_stabilization_piezos *)

\* the limit check with the margins themselves counted as inside
LimitReachedInclusive(refcell_pos, slow_pz_pos, pz_eta_pos) ==
    ~ ( /\ REFERENCE_CELL_LOWER_LIMIT + offset <= refcell_pos
        /\ refcell_pos <= REFERENCE_CELL_UPPER_LIMIT - offset
        /\ SLOW_PIEZO_LOWER_LIMIT + offset <= slow_pz_pos
        /\ slow_pz_pos <= SLOW_PIEZO_UPPER_LIMIT - offset
        /\ PIEZO_ETALON_LOWER_LIMIT + offset <= pz_eta_pos
        /\ pz_eta_pos <= PIEZO_ETALON_UPPER_LIMIT - offset )

\* is_any_limit_reached, line 308-311, on the three positions read
LimitReached(refcell_pos, slow_pz_pos, pz_eta_pos) ==
    ~ ( /\ REFERENCE_CELL_LOWER_LIMIT + offset < refcell_pos
        /\ refcell_pos < REFERENCE_CELL_UPPER_LIMIT - offset
        /\ SLOW_PIEZO_LOWER_LIMIT + offset < slow_pz_pos
        /\ slow_pz_pos < SLOW_PIEZO_UPPER_LIMIT - offset
        /\ PIEZO_ETALON_LOWER_LIMIT + offset < pz_eta_pos
        /\ pz_eta_pos < PIEZO_ETALON_UPPER_LIMIT - offset )

----------------------------------------------------------------------------
(* StabilizationThread.run *)

Abs(x) == IF x < 0 THEN -x ELSE x

\* round(drift, WAVEMETER_PRECISION): the nearest point of the grid, a tie going
\* to the even one
Round(d) ==
    LET r == d % WAVEMETER_GRID
        lo == d - r
    IN IF 2 * r < WAVEMETER_GRID THEN lo
       ELSE IF 2 * r > WAVEMETER_GRID THEN lo + WAVEMETER_GRID
       ELSE IF (lo \div WAVEMETER_GRID) % 2 = 0 THEN lo ELSE lo + WAVEMETER_GRID

\* run, line 41: abs(drift) > tolerance
OutOfTolerance(drift) == Abs(drift) > STABILIZATION_TOLERANCE

\* the directions exchanged
ScanDirectionSwapped(drift) == IF drift < 0 THEN SCAN_MODE_UP ELSE SCAN_MODE_DOWN

\* run, line 42-59: the direction the scan is started in
ScanDirection(drift) == IF drift < 0 THEN SCAN_MODE_DOWN ELSE SCAN_MODE_UP

\* a loop that never looks at its queue
NoMessageEver(s) == TRUE

\* run, line 37: self.messages.qsize() == 0
NoMessage(s) == Len(messages[s]) = 0

\* run, line 36-37 and 66-68: the stop check that opens every iteration
StabLoop(s) ==
    /\ At(s, "loop")
    /\ IF NoMessage(s)
       THEN Goto(s, "measure")
       ELSE Call(s, StopScanCmd, "break")
    /\ iter_cmds' = [iter_cmds EXCEPT ![s] = <<>>]
    /\ loc' = [loc EXCEPT ![s] = [NoLoc EXCEPT !.count0 = auto_corrections]]
    /\ UNCHANGED <<resp, exc, matisse_lock, last_cmd, faults, target_wavelength,
                   stabilization_thread, messages, auto_corrections>>
    /\ UNCHANGED <<motorVars, lockVars>>

\* run, line 68: break, and the thread ends
StabBreak(s) ==
    /\ At(s, "break")
    /\ Goto(s, "done")
    /\ loc' = [loc EXCEPT ![s] = NoLoc]
    /\ iter_cmds' = [iter_cmds EXCEPT ![s] = <<>>]
    /\ UNCHANGED <<resp, exc, matisse_lock, last_cmd, faults, target_wavelength,
                   stabilization_thread, messages, auto_corrections>>
    /\ UNCHANGED <<motorVars, lockVars>>

\* run, line 38-45, 55, 63: measure, compute the drift, and either start the
\* limit check or (within tolerance) stop the scan.  A run that has used up
\* its corrections only reads wavelengths within tolerance.
StabMeasure(s) ==
    /\ At(s, "measure")
    /\ \E w \in WavemeterReadings :
          IF target_wavelength = None
          THEN /\ Raise(s, "TypeError")
               /\ loc' = loc
          ELSE LET drift == Round(target_wavelength - w) IN
               /\ auto_corrections >= MaxCorrections => ~OutOfTolerance(drift)
               /\ loc' = [loc EXCEPT ![s].current_wavelength = w,
                                      ![s].target = target_wavelength,
                                      ![s].drift = drift]
               /\ exc' = exc
               /\ IF OutOfTolerance(drift)
                  THEN Call(s, Cmd("SCAN:NOW?", 0), "lim_refcell")
                  ELSE Call(s, StopScanCmd, "sleep")
    /\ UNCHANGED <<resp, matisse_lock, last_cmd, faults, target_wavelength,
                   stabilization_thread, messages, auto_corrections, iter_cmds>>
    /\ UNCHANGED <<motorVars, lockVars>>

\* is_any_limit_reached, line 304-305
StabLimitRefcell(s) ==
    /\ At(s, "lim_refcell")
    /\ loc' = [loc EXCEPT ![s].refcell = resp[s]]
    /\ Call(s, Cmd("SLOWPIEZO:NOW?", 0), "lim_slow_pz")
    /\ UNCHANGED <<resp, exc, matisse_lock, last_cmd, faults, target_wavelength,
                   stabilization_thread, messages, auto_corrections, iter_cmds>>
    /\ UNCHANGED <<motorVars, lockVars>>

\* is_any_limit_reached, line 305-306
StabLimitSlowPiezo(s) ==
    /\ At(s, "lim_slow_pz")
    /\ loc' = [loc EXCEPT ![s].slow_pz = resp[s]]
    /\ Call(s, Cmd("PIEZOETALON:BASELINE?", 0), "lim_pz_eta")
    /\ UNCHANGED <<resp, exc, matisse_lock, last_cmd, faults, target_wavelength,
                   stabilization_thread, messages, auto_corrections, iter_cmds>>
    /\ UNCHANGED <<motorVars, lockVars>>

\* is_any_limit_reached, line 306-311: the third position and the result
StabLimitReturn(s) ==
    /\ At(s, "lim_pz_eta")
    /\ loc' = [loc EXCEPT ![s].pz_eta = resp[s],
                          ![s].limit = LimitReached(loc[s].refcell, loc[s].slow_pz,
                                                    resp[s])]
    /\ resp' = [resp EXCEPT ![s] = 0]
    /\ Goto(s, "lim_return")
    /\ UNCHANGED <<exc, matisse_lock, last_cmd, faults, target_wavelength,
                   stabilization_thread, messages, auto_corrections, iter_cmds>>
    /\ UNCHANGED <<motorVars, lockVars>>

\* run, line 45-61: with the result of is_any_limit_reached (whose locals are
\* gone), start the scan in the drift's direction, or begin the correction
\* with stop_scan (line 73)
StabLimitDecide(s) ==
    /\ At(s, "lim_return")
    /\ loc' = [loc EXCEPT ![s].refcell = 0, ![s].slow_pz = 0, ![s].pz_eta = 0]
    /\ IF ~loc[s].limit
       THEN Call(s, StartScanCmd(ScanDirection(loc[s].drift)), "sleep")
       ELSE Call(s, StopScanCmd, "reset_pz_eta")
    /\ UNCHANGED <<resp, exc, matisse_lock, last_cmd, faults, target_wavelength,
                   stabilization_thread, messages, auto_corrections, iter_cmds>>
    /\ UNCHANGED <<motorVars, lockVars>>

\* reset_stabilization_piezos, line 314
StabResetPiezoEtalon(s) ==
    /\ At(s, "reset_pz_eta")
    /\ Call(s, Cmd("PIEZOETALON:BASELINE", PIEZO_ETALON_CORRECTION_POS), "reset_slow_pz")
    /\ UNCHANGED <<resp, exc, matisse_lock, last_cmd, faults, target_wavelength,
                   stabilization_thread, messages, auto_corrections, loc, iter_cmds>>
    /\ UNCHANGED <<motorVars, lockVars>>

\* reset_stabilization_piezos, line 315
StabResetSlowPiezo(s) ==
    /\ At(s, "reset_slow_pz")
    /\ Call(s, Cmd("SLOWPIEZO:NOW", SLOW_PIEZO_CORRECTION_POS), "reset_refcell")
    /\ UNCHANGED <<resp, exc, matisse_lock, last_cmd, faults, target_wavelength,
                   stabilization_thread, messages, auto_corrections, loc, iter_cmds>>
    /\ UNCHANGED <<motorVars, lockVars>>

\* reset_stabilization_piezos, line 316
StabResetRefcell(s) ==
    /\ At(s, "reset_refcell")
    /\ Call(s, Cmd("SCAN:NOW", REFCELL_CORRECTION_POS), "count")
    /\ UNCHANGED <<resp, exc, matisse_lock, last_cmd, faults, target_wavelength,
                   stabilization_thread, messages, auto_corrections, loc, iter_cmds>>
    /\ UNCHANGED <<motorVars, lockVars>>

\* a correction that is not counted
CorrectionNotCounted(n) == n

\* do_stabilization_correction, line 78: stabilization_auto_corrections += 1
CorrectionCount(n) == n + 1

StabCount(s) ==
    /\ At(s, "count")
    /\ auto_corrections' = CorrectionCount(auto_corrections)
    /\ Goto(s, "sleep")
    /\ UNCHANGED <<resp, exc, matisse_lock, last_cmd, faults, target_wavelength,
                   stabilization_thread, messages, loc, iter_cmds>>
    /\ UNCHANGED <<motorVars, lockVars>>

\* run, line 65: time.sleep, then the next iteration
StabSleep(s) ==
    /\ At(s, "sleep")
    /\ Goto(s, "loop")
    /\ UNCHANGED <<resp, exc, matisse_lock, last_cmd, faults, target_wavelength,
                   stabilization_thread, messages, auto_corrections, loc, iter_cmds>>
    /\ UNCHANGED <<motorVars, lockVars>>

StabStep(s) ==
    \/ StabLoop(s)
    \/ StabBreak(s)
    \/ StabMeasure(s)
    \/ StabLimitRefcell(s)
    \/ StabLimitSlowPiezo(s)
    \/ StabLimitReturn(s)
    \/ StabLimitDecide(s)
    \/ StabResetPiezoEtalon(s)
    \/ StabResetSlowPiezo(s)
    \/ StabResetRefcell(s)
    \/ StabCount(s)
    \/ StabSleep(s)

----------------------------------------------------------------------------
(* The stabilization session: the foreground thread switches stabilization *)
(* on and off while the loop thread runs                                   *)

Next ==
    \/ FgReturn
    \/ StabilizeOn
    \/ StabilizeOnRisingSpeed
    \/ StabilizeOnFallingSpeed
    \/ StabilizeOnAssign
    \/ StabilizeOnStart
    \/ StabilizeOff
    \/ StabilizeOffPut
    \/ StabilizeOffJoin
    \/ SetSlowPiezoControl
    \/ SetSlowPiezoControlReturn
    \/ \E t \in Threads : QueryAcquire(t)
    \/ \E t \in Threads : QueryRespond(t)
    \/ \E s \in Stab : StabLoop(s)
    \/ \E s \in Stab : StabBreak(s)
    \/ \E s \in Stab : StabMeasure(s)
    \/ \E s \in Stab : StabLimitRefcell(s)
    \/ \E s \in Stab : StabLimitSlowPiezo(s)
    \/ \E s \in Stab : StabLimitReturn(s)
    \/ \E s \in Stab : StabLimitDecide(s)
    \/ \E s \in Stab : StabResetPiezoEtalon(s)
    \/ \E s \in Stab : StabResetSlowPiezo(s)
    \/ \E s \in Stab : StabResetRefcell(s)
    \/ \E s \in Stab : StabCount(s)
    \/ \E s \in Stab : StabSleep(s)

Spec == Init /\ [][Next]_vars

\* the scheduler runs every runnable loop thread and the instrument answers
\* every command
SpecFair ==
    /\ Init
    /\ [][Next]_vars
    /\ \A s \in Stab : /\ WF_vars(StabStep(s))
                       /\ WF_vars(QueryAcquire(s))
                       /\ WF_vars(QueryRespond(s))

----------------------------------------------------------------------------
(* Matisse.start_laser_lock_correction / stop_laser_lock_correction, and   *)
(* the loop of LockCorrectionThread                                        *)

\* a lock correction that is never seen to be running
is_lock_correction_on_never == FALSE

\* Matisse.is_lock_correction_on
is_lock_correction_on ==
    lock_correction_thread # "None" /\ is_alive(lock_correction_thread)

\* a new LockCorrectionThread object: the first one not running
FreshLockThread == IF ~is_alive("l1") THEN "l1" ELSE "l2"

\* start_laser_lock_correction, line 327-333: warn, or create the thread with
\* a fresh queue and start it
StartLaserLockCorrection ==
    /\ At(Fg, "idle")
    /\ IF is_lock_correction_on
       THEN /\ exc' = [exc EXCEPT ![Fg] = "WARNING: Lock correction is already running"]
            /\ Goto(Fg, "returned")
            /\ UNCHANGED <<lock_correction_thread, messages, last_cmd>>
       ELSE LET l == FreshLockThread IN
            /\ ~is_alive(l)
            /\ lock_correction_thread' = l
            /\ messages' = [messages EXCEPT ![l] = NewQueue(@)]
            /\ last_cmd' = [last_cmd EXCEPT ![l] = NoCmd]
            /\ exc' = [exc EXCEPT ![l] = "none"]
            /\ pc' = [pc EXCEPT ![Fg] = "returned", ![l] = "lock_loop"]
            /\ q' = q
    /\ UNCHANGED <<resp, matisse_lock, faults, target_wavelength,
                   stabilization_thread, auto_corrections, loc, iter_cmds>>
    /\ UNCHANGED motorVars

\* stop_laser_lock_correction, line 336 and 339-340
StopLaserLockCorrection ==
    /\ At(Fg, "idle")
    /\ IF is_lock_correction_on
       THEN /\ exc' = exc
            /\ Goto(Fg, "lock_off_put")
       ELSE /\ exc' = [exc EXCEPT ![Fg] = "WARNING: laser is not locked"]
            /\ Goto(Fg, "returned")
    /\ UNCHANGED <<resp, matisse_lock, last_cmd, faults, target_wavelength,
                   stabilization_thread, messages, auto_corrections, loc, iter_cmds>>
    /\ UNCHANGED <<motorVars, lockVars>>

\* stop_laser_lock_correction, line 337: messages.put('stop')
StopLaserLockCorrectionPut ==
    /\ At(Fg, "lock_off_put")
    /\ messages' = [messages EXCEPT ![lock_correction_thread] = Append(@, "stop")]
    /\ Goto(Fg, "lock_off_join")
    /\ UNCHANGED <<resp, exc, matisse_lock, last_cmd, faults, target_wavelength,
                   stabilization_thread, auto_corrections, loc, iter_cmds>>
    /\ UNCHANGED <<motorVars, lockVars>>

\* stop_laser_lock_correction, line 338: join()
StopLaserLockCorrectionJoin ==
    /\ At(Fg, "lock_off_join")
    /\ JoinReturns(lock_correction_thread)
    /\ Goto(Fg, "returned")
    /\ UNCHANGED <<resp, exc, matisse_lock, last_cmd, faults, target_wavelength,
                   stabilization_thread, messages, auto_corrections, loc, iter_cmds>>
    /\ UNCHANGED <<motorVars, lockVars>>

\* LockCorrectionThread.run: an iteration ends the loop if a message has
\* come, and otherwise looks whether the laser is locked
\* (Matisse.fast_piezo_locked, line 262-263)
LockLoop(l) ==
    /\ At(l, "lock_loop")
    /\ IF NoMessage(l)
       THEN Call(l, Cmd("FASTPIEZO:LOCK?", 0), "lock_sleep")
       ELSE Goto(l, "done")
    /\ UNCHANGED <<resp, exc, matisse_lock, last_cmd, faults, target_wavelength,
                   stabilization_thread, messages, auto_corrections, loc, iter_cmds>>
    /\ UNCHANGED <<motorVars, lockVars>>

\* LockCorrectionThread.run: the wait between two iterations
LockSleep(l) ==
    /\ At(l, "lock_sleep")
    /\ Goto(l, "lock_loop")
    /\ resp' = [resp EXCEPT ![l] = 0]
    /\ UNCHANGED <<exc, matisse_lock, last_cmd, faults, target_wavelength,
                   stabilization_thread, messages, auto_corrections, loc, iter_cmds>>
    /\ UNCHANGED <<motorVars, lockVars>>

----------------------------------------------------------------------------
(* Both sessions: the foreground thread switches stabilization and lock    *)
(* correction on and off while the loop threads run                        *)

NextLock ==
    \/ FgReturn
    \/ StabilizeOn
    \/ StabilizeOnRisingSpeed
    \/ StabilizeOnFallingSpeed
    \/ StabilizeOnAssign
    \/ StabilizeOnStart
    \/ \E t \in Threads : QueryAcquire(t)
    \/ \E t \in Threads : QueryRespond(t)
    \/ \E s \in Stab : StabLoop(s)
    \/ \E s \in Stab : StabMeasure(s)
    \/ \E s \in Stab : StabLimitRefcell(s)
    \/ \E s \in Stab : StabLimitSlowPiezo(s)
    \/ \E s \in Stab : StabLimitReturn(s)
    \/ \E s \in Stab : StabLimitDecide(s)
    \/ \E s \in Stab : StabResetPiezoEtalon(s)
    \/ \E s \in Stab : StabResetSlowPiezo(s)
    \/ \E s \in Stab : StabResetRefcell(s)
    \/ \E s \in Stab : StabCount(s)
    \/ \E s \in Stab : StabSleep(s)
    \/ StartLaserLockCorrection
    \/ StopLaserLockCorrection
    \/ StopLaserLockCorrectionPut
    \/ StopLaserLockCorrectionJoin
    \/ \E l \in LockCorr : LockLoop(l)
    \/ \E l \in LockCorr : LockSleep(l)

SpecLock == Init /\ [][NextLock]_vars

----------------------------------------------------------------------------
(* Matisse.set_bifi_motor_pos / set_thin_etalon_motor_pos *)

\* the positions a caller may ask for: around both ends of the range
PositionInputs(m) == {-1, 0, 1, UpperLimit(m) - 1, UpperLimit(m)}

\* the range test with both ends let through
InRangeInclusive(m, pos) == 0 <= pos /\ pos <= UpperLimit(m)

\* no range test
InRangeUnchecked(m, pos) == TRUE

\* line 151, 224: assert 0 < pos < UPPER_LIMIT
InRange(m, pos) == 0 < pos /\ pos < UpperLimit(m)

\* a motor that is taken to be idle whatever it reports
MotorIdleAlways(status) == TRUE

\* line 153, 157, 173: the last 8 bits of the status are MOTOR_STATUS_IDLE
MotorIdle(status) == status % STATUS_BITS = MOTOR_STATUS_IDLE

\* set_*_motor_pos(pos), entered: the assertion, then the first status read;
\* the call returns to label ret
EnterSetMotorPos(m, pos, ret) ==
    IF InRange(m, pos)
    THEN /\ mp' = [NoMp EXCEPT !.motor = m, !.pos = pos, !.ret = ret,
                               !.phase = "ready"]
         /\ Call(Fg, StatusCmd(m), "mp_ready")
         /\ exc' = exc
    ELSE /\ mp' = mp
         /\ Raise(Fg, "AssertionError")

\* a direct call of set_bifi_motor_pos or set_thin_etalon_motor_pos
SetMotorPos ==
    /\ At(Fg, "idle")
    /\ \E m \in Motors : \E pos \in PositionInputs(m) :
          /\ call' = [NoCall EXCEPT !.op = "set_motor_pos", !.motor = m, !.pos = pos]
          /\ EnterSetMotorPos(m, pos, "returned")
    /\ UNCHANGED <<resp, matisse_lock, last_cmd, faults, target_wavelength,
                   scan, moves, busy>>
    /\ UNCHANGED <<loopVars, lockVars>>

\* line 153-155: wait until the motor is idle, then send the move
MotorReady ==
    /\ At(Fg, "mp_ready")
    /\ IF MotorIdle(resp[Fg])
       THEN /\ mp' = [mp EXCEPT !.phase = "moved", !.before = resp[Fg],
                                !.sent = @ + 1]
            /\ Call(Fg, MoveCmd(mp.motor, mp.pos), "mp_moved")
       ELSE /\ mp' = mp
            /\ Call(Fg, StatusCmd(mp.motor), "mp_ready")
    /\ UNCHANGED <<resp, exc, matisse_lock, last_cmd, faults, target_wavelength,
                   call, scan, moves, busy>>
    /\ UNCHANGED <<loopVars, lockVars>>

\* line 155-157: the move is sent; read the status
MotorMoved ==
    /\ At(Fg, "mp_moved")
    /\ Call(Fg, StatusCmd(mp.motor), "mp_done")
    /\ UNCHANGED <<resp, exc, matisse_lock, last_cmd, faults, target_wavelength,
                   call, mp, scan, moves, busy>>
    /\ UNCHANGED <<loopVars, lockVars>>

\* line 157-158: wait until the motor is idle, then return
MotorDone ==
    /\ At(Fg, "mp_done")
    /\ IF MotorIdle(resp[Fg])
       THEN /\ mp' = [mp EXCEPT !.phase = "returned", !.after = resp[Fg]]
            /\ Goto(Fg, mp.ret)
       ELSE /\ mp' = mp
            /\ Call(Fg, StatusCmd(mp.motor), "mp_done")
    /\ UNCHANGED <<resp, exc, matisse_lock, last_cmd, faults, target_wavelength,
                   call, scan, moves, busy>>
    /\ UNCHANGED <<loopVars, lockVars>>

----------------------------------------------------------------------------
(* Matisse.birefringent_filter_scan / thin_etalon_scan *)

\* a range that takes its upper end in
PyRangeClosed(lo, hi, step) ==
    [i \in 1..((hi - lo) \div step + 1) |-> lo + (i - 1) * step]

\* range(lo, hi, step), for lo < hi
PyRange(lo, hi, step) ==
    [i \in 1..((hi - lo + step - 1) \div step) |-> lo + (i - 1) * step]

\* the assertion with the test of the upper end lost
WindowValidLowerOnly(m, lower_limit, upper_limit) ==
    /\ 0 < lower_limit /\ lower_limit < UpperLimit(m)
    /\ lower_limit < upper_limit

\* line 115, 189: the assertion on the scan window
WindowValid(m, lower_limit, upper_limit) ==
    /\ 0 < lower_limit /\ lower_limit < UpperLimit(m)
    /\ 0 < upper_limit /\ upper_limit < UpperLimit(m)
    /\ lower_limit < upper_limit

\* positions[extrema]: the positions at a set of indices, in order
RECURSIVE Select(_, _)
Select(positions, indices) ==
    IF indices = {} THEN <<>>
    ELSE LET i == CHOOSE j \in indices : \A k \in indices : j <= k
         IN <<positions[i]>> \o Select(positions, indices \ {i})

\* what argrelextrema may find in smoothed data: indices that are not the
\* first or the last
ExtremaIndices(positions) == SUBSET (2..(Len(positions) - 1))

\* the first candidate taken whatever was measured
ArgFirst(diffs) == 1

\* np.argmin: the first index of the least value
ArgMin(diffs) ==
    CHOOSE i \in 1..Len(diffs) :
        /\ \A j \in 1..Len(diffs) : diffs[i] <= diffs[j]
        /\ \A j \in 1..(i - 1) : diffs[j] > diffs[i]

\* a scan, entered (line 109-112, 183-186): take the target from the wavemeter
\* if none is set, and ask the motor where it is; the scan returns to label ret
EnterScan(m, ret) ==
    /\ scan' = [NoScan EXCEPT !.motor = m, !.ret = ret]
    /\ moves' = <<>>
    /\ Call(Fg, PositionCmd(m), "scan_center")
    /\ \E w \in WavemeterReadings :
          target_wavelength' = TargetOrMeasured(target_wavelength, w)

\* a direct call of birefringent_filter_scan or thin_etalon_scan
ScanStart ==
    /\ At(Fg, "idle")
    /\ \E m \in Motors :
          /\ call' = [NoCall EXCEPT !.op = "scan", !.motor = m]
          /\ EnterScan(m, "returned")
    /\ UNCHANGED <<resp, exc, matisse_lock, last_cmd, faults, mp, busy>>
    /\ UNCHANGED <<loopVars, lockVars>>

\* line 112-122, 186-196: the window, its assertion, and the first position
ScanCenter ==
    /\ At(Fg, "scan_center")
    /\ LET m == scan.motor
           center_pos == resp[Fg]
           lower_limit == center_pos - ScanRange(m)
           upper_limit == center_pos + ScanRange(m)
           positions == PyRange(lower_limit, upper_limit, ScanStep(m))
       IN IF WindowValid(m, lower_limit, upper_limit)
          THEN /\ scan' = [scan EXCEPT !.center = center_pos,
                                       !.positions = positions, !.idx = 1]
               /\ EnterSetMotorPos(m, positions[1], "scan_sample")
          ELSE /\ scan' = scan
               /\ mp' = mp
               /\ Raise(Fg, "AssertionError")
    /\ UNCHANGED <<resp, matisse_lock, last_cmd, faults, target_wavelength,
                   call, moves, busy>>
    /\ UNCHANGED <<loopVars, lockVars>>

\* line 123, 197: read one sample at the position
ScanSample ==
    /\ At(Fg, "scan_sample")
    /\ Call(Fg, SampleCmd(scan.motor), "scan_next")
    /\ UNCHANGED <<resp, exc, matisse_lock, last_cmd, faults, target_wavelength,
                   call, mp, scan, moves, busy>>
    /\ UNCHANGED <<loopVars, lockVars>>

\* a sample that is read and not kept
DropSample(voltages, sample) == voltages

\* line 123, 197: voltages = np.append(voltages, sample)
KeepSample(voltages, sample) == Append(voltages, sample)

\* a scan that goes back to the start of its window
ReturnToWindowStart(center_pos, positions) == positions[1]

\* line 124, 198: the position the motor is sent back to after sampling
ReturnPosition(center_pos, positions) == center_pos

\* line 121-124, 195-198: the sample is kept; then the next position, or back
\* to the centre
ScanNext ==
    /\ At(Fg, "scan_next")
    /\ IF scan.idx < Len(scan.positions)
       THEN /\ scan' = [scan EXCEPT !.idx = @ + 1,
                                    !.voltages = KeepSample(@, resp[Fg])]
            /\ EnterSetMotorPos(scan.motor, scan.positions[scan.idx + 1], "scan_sample")
       ELSE /\ scan' = [scan EXCEPT !.voltages = KeepSample(@, resp[Fg])]
            /\ EnterSetMotorPos(scan.motor,
                                ReturnPosition(scan.center, scan.positions),
                                "scan_analyze")
    /\ UNCHANGED <<resp, matisse_lock, last_cmd, faults, target_wavelength,
                   call, moves, busy>>
    /\ UNCHANGED <<loopVars, lockVars>>

\* line 129-135, 203-209: the extrema, and the move to the first of them;
\* with none, np.argmin of the empty differences raises
ScanAnalyze ==
    /\ At(Fg, "scan_analyze")
    /\ \E extrema \in ExtremaIndices(scan.positions) :
          LET cands == Select(scan.positions, extrema) IN
          IF cands = <<>>
          THEN /\ scan' = scan
               /\ mp' = mp
               /\ Raise(Fg, "ValueError")
          ELSE /\ scan' = [scan EXCEPT !.cands = cands, !.k = 1]
               /\ EnterSetMotorPos(scan.motor, cands[1], "scan_measure")
    /\ UNCHANGED <<resp, matisse_lock, last_cmd, faults, target_wavelength,
                   call, moves, busy>>
    /\ UNCHANGED <<loopVars, lockVars>>

\* line 134-139, 208-213: measure the wavelength at the extremum; then the next
\* extremum, or the move to the best one (the thin etalon's nudged)
ScanMeasure ==
    /\ At(Fg, "scan_measure")
    /\ \E w \in WavemeterReadings :
          LET diffs == Append(scan.diffs, Abs(w - target_wavelength)) IN
          IF scan.k < Len(scan.cands)
          THEN /\ scan' = [scan EXCEPT !.diffs = diffs, !.k = @ + 1]
               /\ EnterSetMotorPos(scan.motor, scan.cands[scan.k + 1], "scan_measure")
          ELSE LET best_pos == scan.cands[ArgMin(diffs)] + Nudge(scan.motor) IN
               /\ scan' = [scan EXCEPT !.diffs = diffs, !.best_pos = best_pos]
               /\ EnterSetMotorPos(scan.motor, best_pos, "scan_plot")
    /\ UNCHANGED <<resp, matisse_lock, last_cmd, faults, target_wavelength,
                   call, moves, busy>>
    /\ UNCHANGED <<loopVars, lockVars>>

\* line 143-148, 216-221: the plots, and the scan returns
ScanPlot ==
    /\ At(Fg, "scan_plot")
    /\ Goto(Fg, scan.ret)
    /\ UNCHANGED <<resp, exc, matisse_lock, last_cmd, faults, target_wavelength,
                   call, mp, scan, moves, busy>>
    /\ UNCHANGED <<loopVars, lockVars>>

----------------------------------------------------------------------------
(* Matisse.set_wavelength / set_bifi_wavelength *)

\* set_bifi_wavelength, line 162: the bounds 720 and 800 nm, in 1e-4 nm
WAVELENGTH_LOWER_LIMIT == 7200000
WAVELENGTH_UPPER_LIMIT == 8000000

\* the wavelengths a caller may ask for: both bounds and the ones next to them
WavelengthInputs ==
    {WAVELENGTH_LOWER_LIMIT - 1, WAVELENGTH_LOWER_LIMIT, WAVELENGTH_LOWER_LIMIT + 1,
     WAVELENGTH_UPPER_LIMIT - 1, WAVELENGTH_UPPER_LIMIT, WAVELENGTH_UPPER_LIMIT + 1}

\* the range test with both bounds let through
WavelengthInRangeInclusive(value) ==
    WAVELENGTH_LOWER_LIMIT <= value /\ value <= WAVELENGTH_UPPER_LIMIT

\* line 162: assert 720 < value < 800
WavelengthInRange(value) ==
    WAVELENGTH_LOWER_LIMIT < value /\ value < WAVELENGTH_UPPER_LIMIT

\* a set_wavelength that sets the target only when none is set
TargetKeptIfSet(target, wavelength) == IF target = None THEN wavelength ELSE target

\* a set_wavelength that leaves the target as it was
TargetNotSet(target, wavelength) == target

\* line 93: self.target_wavelength = wavelength
NewTarget(target, wavelength) == wavelength

\* line 166: the coarse positioning command
BifiWavelengthCmd(value) == Cmd("MOTBI:WAVELENGTH", value)

\* set_wavelength(wavelength), line 91-95: set the target and call
\* set_bifi_wavelength (line 162-164): the assertion, then the first status read
SetWavelength ==
    /\ At(Fg, "idle")
    /\ \E wavelength \in WavelengthInputs :
          /\ call' = [NoCall EXCEPT !.op = "set_wavelength", !.wavelength = wavelength]
          /\ target_wavelength' = NewTarget(target_wavelength, wavelength)
          /\ IF WavelengthInRange(wavelength)
             THEN /\ Call(Fg, StatusCmd("BI"), "bw_ready")
                  /\ exc' = exc
             ELSE Raise(Fg, "AssertionError")
    /\ UNCHANGED <<resp, matisse_lock, last_cmd, faults, mp, scan, moves, busy>>
    /\ UNCHANGED <<loopVars, lockVars>>

\* set_bifi_wavelength, line 164-166: wait until the motor is idle, then send
\* the wavelength
BifiWavelengthReady ==
    /\ At(Fg, "bw_ready")
    /\ IF MotorIdle(resp[Fg])
       THEN /\ call' = [call EXCEPT !.coarse.before = resp[Fg],
                                    !.coarse.sent = @ + 1]
            /\ Call(Fg, BifiWavelengthCmd(call.wavelength), "bw_moved")
       ELSE /\ call' = call
            /\ Call(Fg, StatusCmd("BI"), "bw_ready")
    /\ UNCHANGED <<resp, exc, matisse_lock, last_cmd, faults, target_wavelength,
                   mp, scan, moves, busy>>
    /\ UNCHANGED <<loopVars, lockVars>>

\* set_bifi_wavelength, line 166-168: the command is sent; read the status
BifiWavelengthMoved ==
    /\ At(Fg, "bw_moved")
    /\ Call(Fg, StatusCmd("BI"), "bw_done")
    /\ UNCHANGED <<resp, exc, matisse_lock, last_cmd, faults, target_wavelength,
                   call, mp, scan, moves, busy>>
    /\ UNCHANGED <<loopVars, lockVars>>

\* set_bifi_wavelength, line 168-169: wait until the motor is idle, then return
BifiWavelengthDone ==
    /\ At(Fg, "bw_done")
    /\ IF MotorIdle(resp[Fg])
       THEN /\ call' = [call EXCEPT !.coarse.after = resp[Fg]]
            /\ Goto(Fg, "sw_bifi_scan")
       ELSE /\ call' = call
            /\ Call(Fg, StatusCmd("BI"), "bw_done")
    /\ UNCHANGED <<resp, exc, matisse_lock, last_cmd, faults, target_wavelength,
                   mp, scan, moves, busy>>
    /\ UNCHANGED <<loopVars, lockVars>>

\* set_wavelength, line 95-97: set_bifi_wavelength has returned; call
\* birefringent_filter_scan
SetWavelengthBifiScan ==
    /\ At(Fg, "sw_bifi_scan")
    /\ call' = [call EXCEPT !.steps = Append(@, "set_bifi_wavelength"),
                             !.coarse = NoCoarse]
    /\ EnterScan("BI", "sw_thin_etalon_scan")
    /\ UNCHANGED <<resp, exc, matisse_lock, last_cmd, faults, mp, busy>>
    /\ UNCHANGED <<loopVars, lockVars>>

\* set_wavelength, line 97-98: birefringent_filter_scan has returned; call
\* thin_etalon_scan
SetWavelengthThinEtalonScan ==
    /\ At(Fg, "sw_thin_etalon_scan")
    /\ call' = [call EXCEPT !.steps = Append(@, "birefringent_filter_scan")]
    /\ EnterScan("TE", "sw_done")
    /\ UNCHANGED <<resp, exc, matisse_lock, last_cmd, faults, mp, busy>>
    /\ UNCHANGED <<loopVars, lockVars>>

\* set_wavelength, line 98-101: thin_etalon_scan has returned; return
SetWavelengthDone ==
    /\ At(Fg, "sw_done")
    /\ call' = [call EXCEPT !.steps = Append(@, "thin_etalon_scan")]
    /\ Goto(Fg, "returned")
    /\ UNCHANGED <<resp, exc, matisse_lock, last_cmd, faults, target_wavelength,
                   mp, scan, moves, busy>>
    /\ UNCHANGED <<loopVars, lockVars>>

----------------------------------------------------------------------------
(* The motors: the foreground thread positions the motors and runs scans *)

NextMotor ==
    \/ FgReturn
    \/ SetMotorPos
    \/ MotorReady
    \/ MotorMoved
    \/ MotorDone
    \/ ScanStart
    \/ ScanCenter
    \/ ScanSample
    \/ ScanNext
    \/ ScanAnalyze
    \/ ScanMeasure
    \/ ScanPlot
    \/ SetWavelength
    \/ BifiWavelengthReady
    \/ BifiWavelengthMoved
    \/ BifiWavelengthDone
    \/ SetWavelengthBifiScan
    \/ SetWavelengthThinEtalonScan
    \/ SetWavelengthDone
    \/ QueryAcquire(Fg)
    \/ QueryRespond(Fg)

SpecMotor == Init /\ [][NextMotor]_vars

----------------------------------------------------------------------------
(* The target during a session: the foreground thread switches            *)
(* stabilization on and calls set_wavelength while the loop thread runs.  *)
(* Of set_wavelength this has the step that writes the target and checks  *)
(* the range; what follows it, the positioning and the scans of           *)
(* SpecMotor, does not write a target that is set.  The link does not     *)
(* fail here.                                                             *)

\* query, line 55 and 66: an exchange that the instrument answers with a result
QueryResult(t) == QueryRespond(t) /\ faults' = faults

NextTarget ==
    \/ FgReturn
    \/ StabilizeOn
    \/ StabilizeOnRisingSpeed
    \/ StabilizeOnFallingSpeed
    \/ StabilizeOnAssign
    \/ StabilizeOnStart
    \/ SetWavelength
    \/ \E t \in Threads : QueryAcquire(t)
    \/ \E t \in Threads : QueryResult(t)
    \/ \E s \in Stab : StabLoop(s)
    \/ \E s \in Stab : StabMeasure(s)
    \/ \E s \in Stab : StabLimitRefcell(s)
    \/ \E s \in Stab : StabLimitSlowPiezo(s)
    \/ \E s \in Stab : StabLimitReturn(s)
    \/ \E s \in Stab : StabLimitDecide(s)
    \/ \E s \in Stab : StabResetPiezoEtalon(s)
    \/ \E s \in Stab : StabResetSlowPiezo(s)
    \/ \E s \in Stab : StabResetRefcell(s)
    \/ \E s \in Stab : StabCount(s)
    \/ \E s \in Stab : StabSleep(s)

SpecTarget == Init /\ [][NextTarget]_vars

----------------------------------------------------------------------------
(* Polling and a loop: the foreground thread positions a motor, waiting   *)
(* for it to be idle, while the lock correction loop runs                 *)

NextPoll ==
    \/ FgReturn
    \/ StartLaserLockCorrection
    \/ StopLaserLockCorrection
    \/ StopLaserLockCorrectionPut
    \/ StopLaserLockCorrectionJoin
    \/ SetMotorPos
    \/ MotorReady
    \/ MotorMoved
    \/ MotorDone
    \/ \E t \in Threads : QueryAcquire(t)
    \/ \E t \in Threads : QueryRespond(t)
    \/ \E l \in LockCorr : LockLoop(l)
    \/ \E l \in LockCorr : LockSleep(l)

SpecPoll == Init /\ [][NextPoll]_vars

----------------------------------------------------------------------------
(* Properties *)

\* the threads whose command is with the instrument, its answer not yet read
InFlight == {t \in Threads : q[t] # <<>> /\ Top(t).st = "held"}

\* C1: at most one command/response exchange with the instrument is in flight
\* at any time, and the thread in it holds matisse_lock
C1_ExchangesSerialized ==
    /\ Cardinality(InFlight) <= 1
    /\ \A t \in InFlight : matisse_lock = t

\* one thread is in an exchange while another waits for the lock
C1_Witness ==
    \E t, u \in Threads :
        /\ t # u
        /\ t \in InFlight
        /\ q[u] # <<>>
        /\ Top(u).st = "wait"

Alive == {s \in Stab : is_alive(s)}

\* C2: stabilize_on goes on to create a thread only when no loop thread is
\* alive, and at most one stabilization loop thread is alive
C2_OneStabilizationThread ==
    /\ Cardinality(Alive) <= 1
    /\ pc[Fg] \in {"on_rising", "on_falling", "on_assign", "on_start"} => Alive = {}
    /\ \A s \in Stab : pc[s] = "created" => Alive = {}

\* stabilize_on was called while the loop was alive, and only warned
C2_Witness ==
    /\ exc[Fg] = "WARNING: Already stabilizing"
    /\ pc[Fg] = "returned"
    /\ is_stabilizing

\* C3: a loop thread with a stop message in its queue eventually ends; once it
\* has seen the message it measures no more; and a loop that ended by itself
\* sent the scan stop as its last command
C3_StopTerminates ==
    /\ \A s \in Stab : (is_alive(s) /\ messages[s] # <<>>) ~> ~is_alive(s)
    /\ [][\A s \in Stab : pc[s] = "break" => pc'[s] \in {"break", "done", "dead"}]_vars
    /\ [](\A s \in Stab : pc[s] = "done" => last_cmd[s] = StopScanCmd)

\* a loop that was sent a stop message has ended by itself
C3_Witness ==
    \E s \in Stab : pc[s] = "done" /\ messages[s] = <<"stop">>

\* C4: stabilize_off on a live loop puts one stop message, making the queue
\* hold exactly one, and returns only when is_stabilizing() is false
C4_StabilizeOffJoins ==
    [][ /\ (pc[Fg] = "off_put" /\ pc'[Fg] = "off_join")
            => messages'[stabilization_thread] = <<"stop">>
        /\ (pc[Fg] = "off_join" /\ pc'[Fg] = "returned")
            => /\ ~is_stabilizing'
               /\ messages'[stabilization_thread] = <<"stop">> ]_vars

\* stabilize_off has returned after the loop it stopped ended by itself
C4_Witness ==
    /\ pc[Fg] = "returned"
    /\ exc[Fg] = "none"
    /\ stabilization_thread # "None"
    /\ pc[stabilization_thread] = "done"
    /\ messages[stabilization_thread] = <<"stop">>

\* the scan-start commands among a sequence of commands
Starts(cmds) == {i \in 1..Len(cmds) : cmds[i].op = "SCAN:STATUS RUN"}

\* C5: an iteration that ends with |drift| > tolerance and no limit reached
\* started the scan, as its last command, DOWN for drift < 0 and UP for
\* drift > 0; one that ends with |drift| <= tolerance sent the scan stop and no
\* start
C5_DriftDirection ==
    \A s \in Stab : At(s, "sleep") =>
        LET drift == Round(loc[s].target - loc[s].current_wavelength)
            cmds == iter_cmds[s]
        IN /\ (Abs(drift) > STABILIZATION_TOLERANCE /\ ~loc[s].limit /\ drift < 0)
                => (cmds[Len(cmds)] = StartScanCmd(SCAN_MODE_DOWN)
                    /\ Starts(cmds) = {Len(cmds)})
           /\ (Abs(drift) > STABILIZATION_TOLERANCE /\ ~loc[s].limit /\ drift > 0)
                => (cmds[Len(cmds)] = StartScanCmd(SCAN_MODE_UP)
                    /\ Starts(cmds) = {Len(cmds)})
           /\ Abs(drift) <= STABILIZATION_TOLERANCE
                => cmds = <<StopScanCmd>>

\* an iteration measured too high a wavelength and started the scan down
C5_Witness ==
    \E s \in Stab :
        /\ At(s, "sleep")
        /\ loc[s].current_wavelength > loc[s].target
        /\ last_cmd[s] = StartScanCmd(SCAN_MODE_DOWN)

\* C6: an iteration that ends having found |drift| > tolerance with a limit
\* reached sent, after the three position reads, the scan stop and the three
\* neutral positions and no scan start, and raised the correction counter by
\* exactly 1; in every other iteration the counter is the one it began with
C6_SaturationCorrection ==
    \A s \in Stab :
        /\ At(s, "sleep") =>
             IF OutOfTolerance(loc[s].drift) /\ loc[s].limit
             THEN /\ SubSeq(iter_cmds[s], 4, Len(iter_cmds[s])) =
                        << StopScanCmd,
                           Cmd("PIEZOETALON:BASELINE", PIEZO_ETALON_CORRECTION_POS),
                           Cmd("SLOWPIEZO:NOW", SLOW_PIEZO_CORRECTION_POS),
                           Cmd("SCAN:NOW", REFCELL_CORRECTION_POS) >>
                  /\ Starts(iter_cmds[s]) = {}
                  /\ auto_corrections = loc[s].count0 + 1
             ELSE auto_corrections = loc[s].count0
        /\ (is_alive(s) /\ pc[s] \notin {"loop", "sleep"})
             => auto_corrections = loc[s].count0

\* a saturation correction has completed
C6_Witness ==
    \E s \in Stab :
        /\ At(s, "sleep")
        /\ OutOfTolerance(loc[s].drift)
        /\ loc[s].limit
        /\ auto_corrections = 1

\* a position is within the offset of one of its bounds
NearBound(pos, lo, hi) == pos <= lo + offset \/ pos >= hi - offset

\* C7: is_any_limit_reached() is true iff one of the three positions read is
\* within the offset of its lower or upper bound, and false for three midpoints
C7_LimitChecker ==
    \A s \in Stab :
        pc[s] = "lim_return"
        => /\ loc[s].limit <=>
                \/ NearBound(loc[s].refcell, REFERENCE_CELL_LOWER_LIMIT,
                             REFERENCE_CELL_UPPER_LIMIT)
                \/ NearBound(loc[s].slow_pz, SLOW_PIEZO_LOWER_LIMIT,
                             SLOW_PIEZO_UPPER_LIMIT)
                \/ NearBound(loc[s].pz_eta, PIEZO_ETALON_LOWER_LIMIT,
                             PIEZO_ETALON_UPPER_LIMIT)
           /\ ( /\ 2 * loc[s].refcell =
                      REFERENCE_CELL_LOWER_LIMIT + REFERENCE_CELL_UPPER_LIMIT
                /\ 2 * loc[s].slow_pz = SLOW_PIEZO_LOWER_LIMIT + SLOW_PIEZO_UPPER_LIMIT
                /\ 2 * loc[s].pz_eta =
                      PIEZO_ETALON_LOWER_LIMIT + PIEZO_ETALON_UPPER_LIMIT )
              => ~loc[s].limit

\* the check answered true for a position exactly on the upper margin, the
\* other two at their midpoints
C7_Witness ==
    \E s \in Stab :
        /\ pc[s] = "lim_return"
        /\ loc[s].limit
        /\ loc[s].refcell = REFERENCE_CELL_UPPER_LIMIT - offset
        /\ 2 * loc[s].slow_pz = SLOW_PIEZO_LOWER_LIMIT + SLOW_PIEZO_UPPER_LIMIT
        /\ 2 * loc[s].pz_eta = PIEZO_ETALON_LOWER_LIMIT + PIEZO_ETALON_UPPER_LIMIT

\* C8: a direct set_bifi_motor_pos(p) or set_thin_etalon_motor_pos(p) with
\* p <= 0 or p >= the motor's upper limit has raised its error with no command
\* (no status read, no move) handed to the instrument
C8_OutOfRangeRejected ==
    (call.op = "set_motor_pos" /\ (call.pos <= 0 \/ call.pos >= UpperLimit(call.motor)))
    => /\ pc[Fg] = "returned"
       /\ exc[Fg] = "AssertionError"
       /\ q[Fg] = <<>>
       /\ last_cmd[Fg] = NoCmd
       /\ moves = <<>>

\* the thin etalon positioner has rejected the upper limit itself
C8_Witness ==
    /\ call.op = "set_motor_pos"
    /\ call.motor = "TE"
    /\ call.pos = THIN_ETALON_UPPER_LIMIT
    /\ pc[Fg] = "returned"
    /\ exc[Fg] = "AssertionError"

\* C9: a positioner call sends its move only after a status read returned Idle,
\* sends it once, and returns only on a status read, made after the move, that
\* returned Idle
C9_MoveBetweenIdleReads ==
    /\ mp.sent <= 1
    /\ mp.sent = 1 => mp.before % STATUS_BITS = MOTOR_STATUS_IDLE
    /\ IsMove(last_cmd[Fg]) =>
          (mp.sent = 1 /\ last_cmd[Fg] = MoveCmd(mp.motor, mp.pos))
    /\ mp.phase = "returned" =>
          /\ mp.sent = 1
          /\ mp.after % STATUS_BITS = MOTOR_STATUS_IDLE
    /\ (mp.phase = "returned" /\ At(Fg, mp.ret)) =>
          /\ last_cmd[Fg] = StatusCmd(mp.motor)
          /\ resp[Fg] % STATUS_BITS = MOTOR_STATUS_IDLE
          /\ moves # <<>>
          /\ moves[Len(moves)] = MoveCmd(mp.motor, mp.pos)
    /\ (call.op = "set_motor_pos" /\ pc[Fg] = "returned" /\ exc[Fg] = "none") =>
          /\ mp.phase = "returned"
          /\ moves = <<MoveCmd(call.motor, call.pos)>>

\* a direct positioner call has returned after one move, on an idle status
\* with a higher bit set
C9_Witness ==
    /\ call.op = "set_motor_pos"
    /\ pc[Fg] = "returned"
    /\ exc[Fg] = "none"
    /\ moves = <<MoveCmd(call.motor, call.pos)>>
    /\ mp.after = MOTOR_STATUS_IDLE + STATUS_BITS

\* C10: every motor move handed to the instrument carries a position p with
\* 0 < p < the motor's upper limit
C10_MovesInRange ==
    /\ \A i \in 1..Len(moves) :
          0 < moves[i].arg /\ moves[i].arg < UpperLimit(MotorOf(moves[i]))
    /\ \A t \in Threads :
          IsMove(last_cmd[t]) =>
              0 < last_cmd[t].arg /\ last_cmd[t].arg < UpperLimit(MotorOf(last_cmd[t]))

\* a thin etalon scan sampled its window, returned to the centre, visited its
\* extrema, and had its nudged final position refused as out of range
C10_Witness ==
    /\ call.op = "scan"
    /\ scan.motor = "TE"
    /\ pc[Fg] = "returned"
    /\ exc[Fg] = "AssertionError"
    /\ Len(scan.diffs) = Len(scan.cands)
    /\ scan.cands # <<>>
    /\ Len(moves) = Len(scan.positions) + 1 + Len(scan.cands)

\* C11: the window of a scan around center is the half-open range from
\* center-range to center+range: it starts at center-range, advances by step,
\* is strictly increasing, lies inside (0, upper limit), stops short of
\* center+range and leaves out no position before it; a scan refused for its
\* window had 0 < center-range and center+range < upper limit not both true;
\* and for center 1000, range 400, step 4 the window is 600, 604, .., 1396
C11_ScanWindow ==
    /\ scan.positions # <<>> =>
         LET p == scan.positions
             m == scan.motor
             lower == scan.center - ScanRange(m)
             upper == scan.center + ScanRange(m)
         IN /\ p[1] = lower
            /\ \A i \in 1..(Len(p) - 1) :
                  p[i + 1] = p[i] + ScanStep(m) /\ p[i] < p[i + 1]
            /\ \A i \in 1..Len(p) :
                  0 < p[i] /\ p[i] < UpperLimit(m) /\ p[i] < upper
            /\ p[Len(p)] + ScanStep(m) >= upper
    /\ (scan.motor # "none" /\ scan.positions = <<>> /\ pc[Fg] = "returned"
            /\ exc[Fg] = "AssertionError")
         => ~ (0 < resp[Fg] - ScanRange(scan.motor)
               /\ resp[Fg] + ScanRange(scan.motor) < UpperLimit(scan.motor))
    /\ LET w == PyRange(1000 - 400, 1000 + 400, 4)
       IN /\ Len(w) = 200
          /\ w[1] = 600
          /\ w[200] = 1396
          /\ \A i \in 1..199 : w[i + 1] = w[i] + 4

\* a birefringent filter scan has sampled the whole window around the highest
\* centre the assertion lets through, and is back at the centre
C11_Witness ==
    /\ At(Fg, "scan_analyze")
    /\ scan.motor = "BI"
    /\ scan.center + BIREFRINGENT_SCAN_RANGE + 1 = BIREFRINGENT_FILTER_UPPER_LIMIT
    /\ scan.idx = Len(scan.positions)
    /\ Len(moves) = Len(scan.positions) + 1

\* a scan has been refused for its window
ScanRejected ==
    /\ scan.motor # "none"
    /\ scan.positions = <<>>
    /\ pc[Fg] = "returned"
    /\ exc[Fg] = "AssertionError"

\* C12 as claimed: a scan refused for its window has handed no command at all
\* to the instrument
C12_RejectedBeforeAnyCommand ==
    ScanRejected => (last_cmd[Fg] = NoCmd /\ moves = <<>>)

\* C12, amended: a scan whose window (around the position it read from the
\* motor) is not inside (0, upper limit) is refused with the position read as
\* the only command handed to the instrument: no status read, no move, no
\* sample; and a scan that went past the assertion has a window inside
\* (0, upper limit) with lower < upper
C12_RejectedAfterPositionRead ==
    /\ ScanRejected =>
          LET lower == resp[Fg] - ScanRange(scan.motor)
              upper == resp[Fg] + ScanRange(scan.motor)
          IN /\ ~ (0 < lower /\ upper < UpperLimit(scan.motor) /\ lower < upper)
             /\ last_cmd[Fg] = PositionCmd(scan.motor)
             /\ q[Fg] = <<>>
             /\ moves = <<>>
    /\ (scan.motor # "none"
          /\ (scan.positions # <<>> \/ moves # <<>>
                \/ pc[Fg] \in {"mp_ready", "mp_moved", "mp_done"}
                \/ last_cmd[Fg] = SampleCmd(scan.motor)))
         => LET lower == scan.center - ScanRange(scan.motor)
                upper == scan.center + ScanRange(scan.motor)
            IN 0 < lower /\ upper < UpperLimit(scan.motor) /\ lower < upper

\* a thin etalon scan was refused because center+range is the upper limit
C12_Witness ==
    /\ ScanRejected
    /\ scan.motor = "TE"
    /\ resp[Fg] + THIN_ETALON_SCAN_RANGE = THIN_ETALON_UPPER_LIMIT
    /\ last_cmd[Fg] = PositionCmd("TE")

\* C13: while a scan visits its candidates, the moves after the return to the
\* centre are the candidates so far, each once and in order, and nothing is
\* selected; once all are visited, the selected candidate is one whose
\* difference from the target, measured at it, is the least of all
C13_ClosestCandidate ==
    scan.cands # <<>> =>
        LET m == scan.motor
            c == scan.cands
            n == Len(scan.positions) + 1
        IN /\ \A i, j \in 1..Len(c) : i # j => c[i] # c[j]
           /\ Len(scan.diffs) < Len(c) =>
                 /\ scan.best_pos = 0
                 /\ scan.k = Len(scan.diffs) + 1
                 /\ Len(moves) \in {n + scan.k - 1, n + scan.k}
                 /\ \A k \in 1..(Len(moves) - n) : moves[n + k] = MoveCmd(m, c[k])
           /\ Len(scan.diffs) = Len(c) =>
                 /\ Len(moves) \in {n + Len(c), n + Len(c) + 1}
                 /\ \A k \in 1..Len(c) : moves[n + k] = MoveCmd(m, c[k])
                 /\ \E j \in 1..Len(c) :
                       /\ scan.best_pos = c[j] + Nudge(m)
                       /\ \A i \in 1..Len(c) : scan.diffs[j] <= scan.diffs[i]

\* a scan visited two candidates, measured the second one closer to the target
\* and moved to it
C13_Witness ==
    /\ At(Fg, "scan_plot")
    /\ Len(scan.cands) = 2
    /\ Len(scan.diffs) = 2
    /\ scan.diffs[2] < scan.diffs[1]
    /\ scan.best_pos = scan.cands[2] + Nudge(scan.motor)
    /\ moves[Len(moves)] = MoveCmd(scan.motor, scan.best_pos)

\* the scan has made its last move and is about to return, or has returned
ScanSucceeded ==
    /\ scan.motor # "none"
    /\ \/ At(Fg, "scan_plot")
       \/ call.op = "scan" /\ pc[Fg] = "returned" /\ exc[Fg] = "none"

\* C14: the last move of a successful thin etalon scan is to the selected
\* extremum plus THIN_ETALON_NUDGE, the last move of a successful
\* birefringent filter scan is to the selected extremum itself
C14_FinalPosition ==
    ScanSucceeded =>
        LET selected == scan.cands[ArgMin(scan.diffs)]
            last == moves[Len(moves)]
        IN /\ scan.motor = "TE" =>
                 last = Cmd("MOTTE:POS", selected + THIN_ETALON_NUDGE)
           /\ scan.motor = "BI" => last = Cmd("MOTBI:POS", selected)

\* a thin etalon scan with one candidate has returned
C14_Witness ==
    /\ call.op = "scan"
    /\ pc[Fg] = "returned"
    /\ exc[Fg] = "none"
    /\ scan.motor = "TE"
    /\ Len(scan.cands) = 1
    /\ moves[Len(moves)] = Cmd("MOTTE:POS", scan.cands[1] + THIN_ETALON_NUDGE)

\* the calls set_wavelength makes, in the order of its code
SetWavelengthOrder ==
    <<"set_bifi_wavelength", "birefringent_filter_scan", "thin_etalon_scan">>

\* C15: throughout set_wavelength(w) the target is w, from before the first
\* command on; the calls it has completed are, in this order, the coarse
\* positioning, the birefringent filter scan and the thin etalon scan; the
\* coarse positioning returns on an idle status read after its one wavelength
\* command, and until then no scan has begun: no position read, no move, no
\* sample
C15_SetWavelengthOrder ==
    call.op = "set_wavelength" =>
        /\ target_wavelength = call.wavelength
        /\ \A i \in 1..Len(call.steps) : call.steps[i] = SetWavelengthOrder[i]
        /\ pc[Fg] \in {"bw_ready", "bw_moved", "bw_done", "sw_bifi_scan"} =>
              /\ call.steps = <<>>
              /\ scan = NoScan
              /\ moves = <<>>
              /\ last_cmd[Fg] \in {NoCmd, StatusCmd("BI"),
                                   BifiWavelengthCmd(call.wavelength),
                                   ErrorCodeCmd, ErrorClearCmd}
        /\ call.coarse.sent <= 1
        /\ last_cmd[Fg].op = "MOTBI:WAVELENGTH" =>
              /\ call.coarse.sent = 1
              /\ call.coarse.before % STATUS_BITS = MOTOR_STATUS_IDLE
        /\ At(Fg, "sw_bifi_scan") =>
              /\ call.coarse.sent = 1
              /\ call.coarse.after % STATUS_BITS = MOTOR_STATUS_IDLE
              /\ last_cmd[Fg] = StatusCmd("BI")
              /\ resp[Fg] % STATUS_BITS = MOTOR_STATUS_IDLE
        /\ scan.motor = "none" => call.steps = <<>>
        /\ scan.motor = "BI" => call.steps = <<"set_bifi_wavelength">>
        /\ scan.motor = "TE" => Len(call.steps) >= 2
        /\ last_cmd[Fg] \in {PositionCmd("BI"), SampleCmd("BI")} => Len(call.steps) >= 1
        /\ last_cmd[Fg] \in {PositionCmd("TE"), SampleCmd("TE")} => Len(call.steps) >= 2
        /\ (pc[Fg] = "returned" /\ exc[Fg] = "none") => call.steps = SetWavelengthOrder

\* set_wavelength has returned after the coarse positioning and both scans
C15_Witness ==
    /\ call.op = "set_wavelength"
    /\ pc[Fg] = "returned"
    /\ exc[Fg] = "none"
    /\ call.steps = SetWavelengthOrder
    /\ target_wavelength = WAVELENGTH_UPPER_LIMIT - 1
    /\ scan.motor = "TE"

\* set_wavelength has failed with its range error and no command was sent
SetWavelengthRejected ==
    /\ call.op = "set_wavelength"
    /\ pc[Fg] = "returned"
    /\ exc[Fg] = "AssertionError"
    /\ q[Fg] = <<>>
    /\ last_cmd[Fg] = NoCmd

\* C16 as claimed: set_wavelength(w) fails with a range error before any
\* command iff w is outside the closed range [720, 800]
C16_ClosedRangeAccepted ==
    call.op = "set_wavelength" =>
        (SetWavelengthRejected <=>
            (call.wavelength < WAVELENGTH_LOWER_LIMIT
                \/ call.wavelength > WAVELENGTH_UPPER_LIMIT))

\* C16, amended: set_wavelength(w) fails with a range error before any command
\* iff w is outside the open range (720, 800), the bounds themselves being
\* refused; a w inside it goes on to the coarse positioning, whose first
\* command is a status read and whose wavelength command carries w
C16_OpenRangeAccepted ==
    call.op = "set_wavelength" =>
        LET outside == \/ call.wavelength <= WAVELENGTH_LOWER_LIMIT
                       \/ call.wavelength >= WAVELENGTH_UPPER_LIMIT
        IN /\ SetWavelengthRejected <=> outside
           /\ (~outside /\ last_cmd[Fg] = NoCmd) =>
                 q[Fg] = <<Frame(StatusCmd("BI"), "wait")>>
           /\ last_cmd[Fg].op = "MOTBI:WAVELENGTH" =>
                 last_cmd[Fg].arg = call.wavelength

\* the coarse positioning command was sent for the wavelength next to the
\* lower bound
C16_Witness ==
    /\ call.op = "set_wavelength"
    /\ call.wavelength = WAVELENGTH_LOWER_LIMIT + 1
    /\ last_cmd[Fg] = Cmd("MOTBI:WAVELENGTH", WAVELENGTH_LOWER_LIMIT + 1)

\* C17: whenever a stabilization loop thread is alive, and already when
\* stabilize_on is about to start it, the target is set; and a target that is
\* set is never unset again
C17_TargetSetWhileStabilizing ==
    /\ [](\A s \in Stab : is_alive(s) => target_wavelength # None)
    /\ [](pc[Fg] = "on_start" => target_wavelength # None)
    /\ [][target_wavelength # None => target_wavelength' # None]_vars

\* a loop started by stabilize_on with no target set is measuring against the
\* wavelength the wavemeter read then
C17_Witness ==
    \E s \in Stab :
        /\ stabilization_thread = s
        /\ pc[s] = "measure"
        /\ target_wavelength \in WavemeterReadings

\* C19: stabilize_off called while no loop thread is alive only warns and
\* returns: it does not go on to put a stop message or to join, and it leaves
\* the queues, the session reference, the target, the lock and every thread's
\* commands as they were
C19_StabilizeOffNoOp ==
    [][ (pc[Fg] = "idle" /\ Alive = {}) =>
          /\ pc'[Fg] \notin {"off_put", "off_join"}
          /\ exc'[Fg] = "WARNING: not running" =>
                /\ pc'[Fg] = "returned"
                /\ UNCHANGED <<messages, stabilization_thread, target_wavelength,
                               last_cmd, q, matisse_lock, faults,
                               auto_corrections>>
                /\ \A s \in Stab : pc'[s] = pc[s] ]_vars

\* stabilize_off was called when the session's thread had died of an error,
\* and only warned
C19_Witness ==
    /\ pc[Fg] = "returned"
    /\ exc[Fg] = "WARNING: not running"
    /\ stabilization_thread # "None"
    /\ pc[stabilization_thread] = "dead"
    /\ messages[stabilization_thread] = <<>>
    /\ last_cmd[Fg] = NoCmd

\* the lock correction threads that are alive
LockAlive == {l \in LockCorr : is_alive(l)}

\* C18: a stabilization loop thread that an error of a hardware call has ended
\* holds neither the lock nor a pending query, and is_stabilizing() is false
\* for it; the step that ends it frees the lock and leaves the foreground
\* thread, the lock correction threads and every queue as they were; and a
\* loop thread comes alive only by the foreground thread's stabilize_on
C18_LoopErrorIsLocal ==
    /\ [](\A s \in Stab : pc[s] = "dead" =>
             /\ exc[s] \in {"IOError", "RuntimeError"}
             /\ q[s] = <<>>
             /\ matisse_lock # s
             /\ stabilization_thread = s =>
                   ~(stabilization_thread # "None" /\ is_alive(stabilization_thread)))
    /\ [][\A s \in Stab : (pc[s] # "dead" /\ pc'[s] = "dead") =>
             /\ matisse_lock' = "free"
             /\ \A t \in Threads \ {s} :
                   pc'[t] = pc[t] /\ q'[t] = q[t] /\ exc'[t] = exc[t]
             /\ UNCHANGED <<messages, stabilization_thread, lock_correction_thread,
                            target_wavelength>>]_vars
    /\ [][\A s \in Stab : (~is_alive(s) /\ is_alive(s)') =>
             (pc[Fg] = "on_start" /\ pc'[Fg] = "returned")]_vars

\* after a transport error ended the stabilization loop, a lock correction
\* thread is in an exchange with the instrument and the foreground thread,
\* switching stabilization on again, waits for the link
C18_Witness ==
    \E s \in Stab : \E l \in LockCorr :
        /\ pc[s] = "dead"
        /\ exc[s] = "IOError"
        /\ l \in InFlight
        /\ pc[Fg] = "on_rising"
        /\ q[Fg] # <<>>
        /\ Top(Fg).st = "wait"

\* C20: at most one lock correction thread is alive; one comes alive only by
\* start_laser_lock_correction called when none is, as the session's thread
\* with an empty queue; called when one is alive, start only warns; stop, when
\* one is alive, puts one stop message and returns only when the thread has
\* ended, and otherwise only warns and puts nothing
C20_OneLockCorrectionThread ==
    /\ [](Cardinality(LockAlive) <= 1)
    /\ [][\A l \in LockCorr : (~is_alive(l) /\ is_alive(l)') =>
             /\ LockAlive = {}
             /\ pc[Fg] = "idle"
             /\ lock_correction_thread' = l
             /\ messages'[l] = <<>>]_vars
    /\ [][(pc[Fg] = "idle" /\ LockAlive # {}) =>
             /\ exc'[Fg] # "WARNING: laser is not locked"
             /\ exc'[Fg] = "WARNING: Lock correction is already running" =>
                   /\ pc'[Fg] = "returned"
                   /\ UNCHANGED <<lock_correction_thread, messages, last_cmd, q>>
                   /\ \A l \in LockCorr : pc'[l] = pc[l]]_vars
    /\ [][(pc[Fg] = "idle" /\ LockAlive = {}) =>
             /\ exc'[Fg] # "WARNING: Lock correction is already running"
             /\ pc'[Fg] \notin {"lock_off_put", "lock_off_join"}
             /\ exc'[Fg] = "WARNING: laser is not locked" =>
                   /\ pc'[Fg] = "returned"
                   /\ UNCHANGED <<lock_correction_thread, messages, last_cmd, q>>]_vars
    /\ [][(pc[Fg] = "lock_off_put" /\ pc'[Fg] # "lock_off_put") =>
             /\ pc'[Fg] = "lock_off_join"
             /\ messages' = [messages EXCEPT ![lock_correction_thread] =
                                                Append(@, "stop")]]_vars
    /\ [][(pc[Fg] = "lock_off_join" /\ pc'[Fg] # "lock_off_join") =>
             /\ pc'[Fg] = "returned"
             /\ ~is_alive(lock_correction_thread)']_vars

\* start_laser_lock_correction was called while the lock correction ran, and
\* only warned
C20_Witness ==
    /\ pc[Fg] = "returned"
    /\ exc[Fg] = "WARNING: Lock correction is already running"
    /\ lock_correction_thread # "None"
    /\ is_alive(lock_correction_thread)

\* C21: the moves of a scan are, in this order, the window positions (strictly
\* increasing, by C11), the centre, the candidates and the chosen position;
\* while the window is sampled there is exactly one sample for each move but
\* perhaps the last, and none is read later; a sample is asked for only right
\* after the status read that ended a window move not yet sampled; a move is
\* sent, the move back to the centre included, only when every earlier window
\* move has its sample; and a successful scan has made all these moves
C21_MoveSequence ==
    /\ [](scan.positions # <<>> =>
            LET m == scan.motor
                p == scan.positions
                c == scan.cands
                n == Len(scan.positions)
                L == Len(moves)
                v == Len(scan.voltages)
            IN /\ \A i \in 1..L :
                     /\ i <= n => moves[i] = MoveCmd(m, p[i])
                     /\ i = n + 1 => moves[i] = MoveCmd(m, scan.center)
                     /\ (n + 1 < i /\ i <= n + 1 + Len(c)) =>
                           moves[i] = MoveCmd(m, c[i - n - 1])
               /\ L > n + 1 => c # <<>>
               /\ L <= n + Len(c) + 2
               /\ L = n + Len(c) + 2 =>
                     /\ Len(scan.diffs) = Len(c)
                     /\ moves[L] = MoveCmd(m, scan.best_pos)
               /\ L <= n => v \in {L - 1, L}
               /\ L > n => v = n
               /\ last_cmd[Fg] = SampleCmd(m) => (1 <= L /\ L <= n)
               /\ ScanSucceeded => (L = n + Len(c) + 2 /\ v = n))
    /\ [][(last_cmd'[Fg].op \in {"DPOW:DC?", "TE:DC?"} /\ last_cmd'[Fg] # last_cmd[Fg]) =>
             /\ last_cmd'[Fg] = SampleCmd(scan.motor)
             /\ last_cmd[Fg] = StatusCmd(scan.motor)
             /\ Len(moves) <= Len(scan.positions)
             /\ Len(scan.voltages) = Len(moves) - 1]_vars
    /\ [][(scan.positions # <<>> /\ Len(moves') > Len(moves)
              /\ Len(moves) <= Len(scan.positions)) =>
             Len(scan.voltages) = Len(moves)]_vars

\* a birefringent filter scan with two candidates has returned after sampling
\* its window, going back to the centre, visiting both and moving to the best
C21_Witness ==
    /\ call.op = "scan"
    /\ scan.motor = "BI"
    /\ pc[Fg] = "returned"
    /\ exc[Fg] = "none"
    /\ Len(scan.cands) = 2
    /\ Len(scan.voltages) = Len(scan.positions)
    /\ Len(moves) = Len(scan.positions) + 4
    /\ moves[Len(scan.positions) + 1] = MoveCmd("BI", scan.center)

\* a scan has failed after its move back to the centre was sent
ScanFailedAfterRestore ==
    /\ scan.positions # <<>>
    /\ Len(moves) > Len(scan.positions)
    /\ pc[Fg] = "returned"
    /\ exc[Fg] # "none"

\* C22 as claimed: a scan that has failed after sampling, whatever it failed
\* in, sent the centre as the last position
C22_FailedScanAtCenter ==
    ScanFailedAfterRestore =>
        moves[Len(moves)] = MoveCmd(scan.motor, scan.center)

\* C22, amended: a scan that has failed after the move back to the centre and
\* before any candidate move (no extremum found, or an error of the
\* instrument until then) sent the centre as its last position; one that has
\* failed later sent as its last position the last candidate it visited, or
\* the chosen position if that move was sent; a chosen position that is out of
\* range is refused unsent, the last candidate being the last position sent
C22_FailedScanLastPosition ==
    ScanFailedAfterRestore =>
        LET m == scan.motor
            c == scan.cands
            n == Len(scan.positions)
            L == Len(moves)
        IN /\ L = n + 1 => moves[L] = MoveCmd(m, scan.center)
           /\ exc[Fg] = "ValueError" => (c = <<>> /\ L = n + 1)
           /\ (n + 1 < L /\ L <= n + 1 + Len(c)) => moves[L] = MoveCmd(m, c[L - n - 1])
           /\ L = n + 2 + Len(c) => moves[L] = MoveCmd(m, scan.best_pos)
           /\ exc[Fg] = "AssertionError" =>
                 /\ L = n + 1 + Len(c)
                 /\ c # <<>>
                 /\ ~InRange(m, scan.best_pos)
                 /\ moves[L] = MoveCmd(m, c[Len(c)])

\* a scan found no extremum and failed with the motor sent back to the centre
C22_Witness ==
    /\ ScanFailedAfterRestore
    /\ exc[Fg] = "ValueError"
    /\ scan.cands = <<>>
    /\ moves[Len(moves)] = MoveCmd(scan.motor, scan.center)

\* a scan is entered by this step
ScanEntered ==
    /\ scan'.motor # "none"
    /\ scan' # scan
    /\ scan'.positions = <<>>
    /\ q'[Fg] = <<Frame(PositionCmd(scan'.motor), "wait")>>

\* C23: the target changes only when a scan is entered with no target set,
\* to one wavemeter reading and before the scan's first command, or when
\* set_wavelength is called; a scan entered with a target set leaves it as it
\* is; and a scan in progress always has a target
C23_TargetFallback ==
    /\ [][target_wavelength' # target_wavelength =>
             \/ /\ target_wavelength = None
                /\ ScanEntered
                /\ target_wavelength' \in WavemeterReadings
                /\ moves' = <<>>
                /\ scan'.voltages = <<>>
             \/ /\ pc[Fg] = "idle"
                /\ call'.op = "set_wavelength"
                /\ target_wavelength' = call'.wavelength]_vars
    /\ [][(ScanEntered /\ target_wavelength # None) =>
             target_wavelength' = target_wavelength]_vars
    /\ [][(ScanEntered /\ target_wavelength = None) =>
             target_wavelength' \in WavemeterReadings]_vars
    /\ [](scan.motor # "none" => target_wavelength # None)

\* a scan called after a set_wavelength has run to its end with the target
\* that call left
C23_Witness ==
    /\ call.op = "scan"
    /\ At(Fg, "scan_plot")
    /\ target_wavelength # None
    /\ target_wavelength \notin WavemeterReadings

\* C25: a direct call of query that has raised the instrument's error had
\* raise_on_error, handed to the instrument its command, then ERROR:CODE?,
\* then ERROR:CLEAR and nothing else, and the error names that command and
\* the codes read; a call without raise_on_error hands over its command only,
\* raises no such error and returns the error answer
C25_ErrorPath ==
    call.op = "query" =>
        /\ (pc[Fg] = "returned" /\ exc[Fg] = "RuntimeError") =>
              /\ call.raise_on_error
              /\ call.cmds = <<call.cmds[1], ErrorCodeCmd, ErrorClearCmd>>
              /\ call.error.command = call.cmds[1].op
              /\ call.error.err_codes \in ErrorCodes
        /\ call.cmds # <<>> =>
              \/ call.cmds[1] \in {ErrorCodeCmd, ErrorClearCmd}
              \/ \A i \in 2..Len(call.cmds) : call.cmds[i] # call.cmds[1]
        /\ ~call.raise_on_error =>
              /\ Len(call.cmds) <= 1
              /\ exc[Fg] # "RuntimeError"
        /\ resp[Fg] = ERROR_RESPONSE =>
              /\ ~call.raise_on_error
              /\ Len(call.cmds) = 1
              /\ exc[Fg] = "none"

\* C30: a direct call of query hands at most three commands to the
\* instrument, and has at most one call of query inside it at a time
C30_BoundedCommands ==
    call.op = "query" =>
        /\ Len(call.cmds) <= 3
        /\ Len(q[Fg]) <= 2

\* C27: a stabilization loop thread that has ended, by a stop request or by an
\* error, has not left a start-scan as the last scan command it sent: here,
\* for the thread whose last command of all is still known, that command is
\* no start-scan
C27_ScanStoppedAfterLoop ==
    \A s \in Stab :
        pc[s] \in {"done", "dead"} => last_cmd[s].op # "SCAN:STATUS RUN"

\* C29: a set_wavelength call that fails the range check of
\* set_bifi_wavelength leaves the target at the value it had before the call
C29_FailedSetWavelengthKeepsTarget ==
    [][ (At(Fg, "idle") /\ call'.op = "set_wavelength"
            /\ exc'[Fg] = "AssertionError")
        => target_wavelength' = target_wavelength ]_vars

\* the thread is on the error path of a query: its command was answered with
\* an error, and its ERROR:CODE? or ERROR:CLEAR has not been answered yet
OnErrorPath(t) ==
    \E i \in 1..Len(q[t]) : q[t][i].st \in {"code", "clear"}

\* C28: from the answer to a failing command until the ERROR:CODE? and the
\* ERROR:CLEAR of the same query call are answered, the instrument is handed
\* no command of another thread
C28_ErrorCodeOfFailingCommand ==
    [][ \A t \in Threads : \A u \in Threads \ {t} :
            OnErrorPath(t) => ~(matisse_lock # u /\ matisse_lock' = u) ]_vars

\* the thread is in the with block of query: it has handed its command to
\* the instrument and has no answer yet
InExchange(t) == q[t] # <<>> /\ Top(t).st = "held"

\* the foreground thread is waiting for a motor to be idle: it has read a
\* status that was not idle, and its next status read has not got the lock
BetweenPolls ==
    /\ pc[Fg] \in {"mp_ready", "mp_done"}
    /\ busy > 0
    /\ ~InExchange(Fg)

\* C24: a thread holds the lock exactly while it is in one exchange, so the
\* lock is given back when the exchange ends, by an answer, an error answer or
\* a transport failure; a thread waiting for a motor holds no lock between two
\* status reads, and a loop thread's query that waits then gets the lock
\* unless another loop thread's exchange has it; and no call of query waits
\* for the lock while its thread holds it
C24_LockHeldPerExchange ==
    /\ \A t \in Threads : matisse_lock = t <=> InExchange(t)
    /\ \A t \in Threads : exc[t] \in {"IOError", "RuntimeError"} => matisse_lock # t
    /\ BetweenPolls =>
          /\ matisse_lock # Fg
          /\ \A u \in Loops :
                (q[u] # <<>> /\ Top(u).st = "wait" /\ \A v \in Loops : ~InExchange(v))
                => ENABLED QueryAcquire(u)
    /\ \A t \in Threads : \A i \in 1..Len(q[t]) :
          q[t][i].st = "wait" => matisse_lock # t

\* the foreground thread waits for the thin etalon motor it has moved, and
\* between two of its status reads the lock correction loop has the link
C24_Witness ==
    /\ BetweenPolls
    /\ pc[Fg] = "mp_done"
    /\ mp.sent = 1
    /\ \E l \in LockCorr : InExchange(l) /\ matisse_lock = l

\* the loop thread reads the wavelength and the target and computes the drift
Measures(s) == At(s, "measure") /\ pc'[s] # "measure" /\ exc'[s] # "TypeError"

\* C26: every iteration of the stabilization loop computes its drift against
\* the target as it is when the iteration reads it: once the foreground thread
\* has called set_wavelength(w), an iteration that measures after that takes w
\* as its target, whatever the target was when stabilize_on was called
C26_LoopReadsTargetAfresh ==
    [][ \A s \in Stab : Measures(s) =>
          /\ loc'[s].target = target_wavelength
          /\ loc'[s].drift = Round(target_wavelength - loc'[s].current_wavelength)
          /\ call.op = "set_wavelength" => loc'[s].target = call.wavelength ]_vars

\* a loop that has gone through a correction has, in an iteration after the
\* foreground thread called set_wavelength, measured its drift against the
\* wavelength of that call
C26_Witness ==
    \E s \in Stab :
        /\ stabilization_thread = s
        /\ pc[s] = "lim_refcell"
        /\ auto_corrections > 0
        /\ call.op = "set_wavelength"
        /\ WavelengthInRange(call.wavelength)
        /\ loc[s].target = call.wavelength
        /\ loc[s].drift = Round(call.wavelength - loc[s].current_wavelength)

\* C31: a stop message is in the queue of a thread that is running, or is
\* about to run, only while the stabilize_off that put it waits for that
\* thread; stabilize_on hands the thread it creates an empty queue; and a loop
\* leaves at its stop check only under such a stabilize_off, so a stop put for
\* an earlier session, ended or dead, ends no later one
C31_StopBelongsToOneSession ==
    /\ [](\A s \in Stab :
            (messages[s] # <<>> /\ (is_alive(s) \/ pc[s] = "created"))
            => (stabilization_thread = s /\ pc[Fg] = "off_join"))
    /\ [][ (pc[Fg] = "on_assign" /\ pc'[Fg] = "on_start")
           => messages'[stabilization_thread'] = <<>> ]_vars
    /\ [][ \A s \in Stab : (At(s, "loop") /\ pc'[s] = "break")
           => (stabilization_thread = s /\ pc[Fg] = "off_join") ]_vars

\* with no failure of the link so far, a session after one that made a
\* correction and was stopped has passed its first stop check, its queue empty
C31_Witness ==
    \E s \in Stab :
        /\ stabilization_thread = s
        /\ pc[s] = "measure"
        /\ last_cmd[s] = NoCmd
        /\ messages[s] = <<>>
        /\ auto_corrections > 0
        /\ faults = 0

====
